---- MODULE Spec2Model ----
(***************************************************************************)
(* The SSE event broker of the investment-analysis API:                    *)
(*   app/utils/sse_stream_event_queue.py   SSEStreamEventQueue             *)
(*   app/dependencies.py                   the per-session broker registry *)
(*   app/routers/analysis.py               start_analysis and the          *)
(*                                         stream_analysis_events generator*)
(*                                                                         *)
(* Concurrency is asyncio's: tasks interleave only where a coroutine       *)
(* awaits.  Every await of the source is a possible suspension point; the  *)
(* synchronous code that follows an await runs in the same step as the     *)
(* completion of that await.                                               *)
(***************************************************************************)
EXTENDS Integers, Sequences, FiniteSets, TLC

(* ------------------------------ bounds --------------------------------- *)
\* StreamEventMessage objects created in a run of Spec / of SpecListeners
MaxMsgs == 3
MaxListenMsgs == 2
\* StreamEventMessage objects created in a run of SpecExclusion
MaxExclMsgs == 2
\* StreamEventMessage objects created in a run of SpecTwoRuns
MaxTwoRunMsgs == 3
\* turns of the longest stored conversation; events published before the
\* last run on a conversation starts
MaxTurns == 3
MaxConvEvents == 6
\* steps of the short plans; events one run of the workflow publishes at most
MaxPlanSteps == 2
MaxRunEvents == 20
\* leading characters of an assigned_agent value tried in both letter cases
MaxCasedChars == 4
\* listener queues created in a run
MaxHandles == 2
\* largest max_events a broker is constructed with
MaxCap == 2
\* SSEStreamEventQueue objects constructed in a run
MaxBrokers == 3
\* events a workflow publishes in a run of SpecStream / of SpecReconnect
MaxStreamEvents == 2
MaxReplayEvents == 5
\* streaming requests one client makes in a run of SpecStream / of SpecReconnect
MaxStreamConnects == 1
MaxConnects == 2

(* -------------------------- program constants -------------------------- *)
\* SSEStreamEventQueue.__init__(max_events = 1000)
DefaultMaxEvents == 1000
\* StreamEventMessage.sequence is None until add_event assigns it
NoSeq == -1
\* an unset timestamp field; the value of the field's default, which is
\* computed once, when the class StreamEventMessage is defined
NoTime == -1
ImportTime == 0

\* asyncio.Queue() is created without a maxsize: maxsize 0, never full
BoundedListenerMaxSize == 1
ListenerMaxSize == 0

Tasks == {"t1", "t2"}
Clients == {"c1", "c2"}
Workers == {"w1"}
Runs == {"w1", "w2"}
AllTasks == Tasks \cup Clients \cup Runs
SessionIds == {"s1"}
Brokers == 1..MaxBrokers
Msgs == 1..(MaxMsgs + MaxListenMsgs + MaxStreamEvents + MaxReplayEvents + MaxExclMsgs
              + MaxRunEvents + MaxTwoRunMsgs)
Handles == 1..MaxHandles
NoTask == "none"

\* the executors of the what-if workflow, by their ids
Planner == "planning_agent_executor"
Specialists == {"financial_analyst_agent_executor", "risk_analyst_agent_executor",
                "market_analyst_agent_executor", "compliance_analyst_agent_executor"}
Summarizer == "analysis_summarizer"
Executors == {Planner, Summarizer} \cup Specialists
\* a StreamEventMessage whose type was not looked at
NoType == [type |-> "", executor |-> "", data |-> {}]

\* Optional[int]: None is the empty tuple, a value n is <<n>>
None == <<>>
SinceArgs == {None} \cup {<<n>> : n \in (-1)..(MaxMsgs - 1)}

VARIABLES
  made,             \* number of SSEStreamEventQueue objects constructed
  max_events,       \* [broker] the deque's maxlen
  eventQueue,       \* the EventQueue: _queues, _sequence_numbers, last get_events
  queue,            \* [broker] _queue: the buffered message objects, oldest first
  sequence_number,  \* [broker] _sequence_number
  listeners,        \* [broker] _listeners: the registered asyncio.Queue objects
  lock,             \* [broker] _lock: the task holding it, or NoTask
  chan,             \* [handle] contents of a listener's asyncio.Queue
  nHandles,         \* number of listener queues created
  msgSeq,           \* [message] the object's sequence field
  msgTime,          \* [message] the object's timestamp field
  nMsgs,            \* number of StreamEventMessage objects created
  sessions,         \* _sse_event_queue_sessions: session id -> broker (0: absent)
  pc,               \* [task] position of the task
  tb,               \* [task] the broker object the task refers to
  arg,              \* [task] argument of the call in progress
  idx,              \* [task] position in add_event's loop over _listeners
  res,              \* [task] events returned by get_events, not yet yielded
  handle,           \* [task] listener queue returned by register_listener
  since,            \* [task] since_sequence of the streaming request
  out,              \* [client] sequence fields of the events yielded on this connection
  pubLog,           \* [broker] history: every (message, sequence) add_event assigned
  lastReset,        \* [broker] history: Len(pubLog) when the counter was last reset
  regAt,            \* [handle] history: Len(pubLog) when the listener registered
  hb,               \* [handle] history: the broker the listener registered with
  recv,             \* [handle] history: what was dequeued from the listener's queue
  keyError,         \* history: a del of an absent session key raised KeyError
  conn,             \* [client] history: number of streaming requests it has made
  pubAt,            \* [client] history: events published when it last connected
  discAt,           \* [client] history: events published when it last disconnected
  msgType,          \* [message] the object's type, executor and data fields
  conv,             \* the stored WhatIfConversation: exists, and its messages
  next_seq_num,     \* execute_workflow's next_seq_num
  toPersist,        \* _handle_event has published an output and not yet persisted it
  turnLog,          \* history: every call of try_persist_conversation_message
  wfState,          \* the workflow run: "off", "running", "idle" or "failed"
  steps,            \* plan.steps of the ExecutionPlan: the assigned_agent of each step
  ex,               \* [executor] "idle", "invoked", "done" or "failed"
  left,             \* [specialist] steps of addressed_in_steps not executed yet
  sent,             \* [specialist] AnalystAgentOutput messages it has sent
  sumIn,            \* analyst_outputs handed to AnalysisSummarizer.aggregate
  runs,             \* [executor] history: number of its _agent.run calls
  raised,           \* an exception was raised inside execute_workflow's try block
  wfEvents          \* workflow events yielded by run_stream, not handled yet

brokerVars == <<made, max_events, eventQueue, queue, sequence_number, listeners, lock>>
chanVars == <<chan, nHandles>>
msgVars == <<msgSeq, msgTime, nMsgs>>
taskVars == <<pc, tb, arg, idx, res, handle, since>>
histVars == <<pubLog, lastReset, regAt, hb, recv, out, keyError, conn, pubAt>>
runVars == <<wfState, steps, ex, left, sent, sumIn, runs, raised>>
convVars == <<conv, next_seq_num, toPersist, turnLog>>
wfVars == <<msgType, wfEvents, convVars, runVars>>
vars == <<brokerVars, chanVars, msgVars, sessions, taskVars, histVars, discAt, wfVars>>

(* ------------------------------ helpers -------------------------------- *)
\* collections.deque(maxlen = n).append(x)
DequeAppendKeepOldest(q, x, n) ==
  IF Len(q) >= n THEN q ELSE Append(q, x)
DequeAppend(q, x, n) ==
  IF n = 0 THEN <<>>
  ELSE IF Len(q) >= n THEN Append(Tail(q), x)
  ELSE Append(q, x)

\* asyncio.Queue.full()
Full(ch) == ListenerMaxSize > 0 /\ Len(ch) >= ListenerMaxSize

\* asyncio.Queue.put(x) on a queue that is not full
QueuePutFront(ch, x) == <<x>> \o ch
QueuePut(ch, x) == Append(ch, x)

\* add_event: seq = self._sequence_number
AssignedSequenceFromLen(b) == Len(queue[b])
AssignedSequence(b) == sequence_number[b]

\* add_event: self._sequence_number += 1
NextSequenceStuck(n) == n
NextSequence(n) == n + 1

\* list.remove(x): drops the first occurrence; ValueError (swallowed) when absent
ListRemoveHead(l, x) == IF l = <<>> THEN <<>> ELSE Tail(l)
RECURSIVE ListRemove(_, _)
ListRemove(l, x) ==
  IF l = <<>> THEN <<>>
  ELSE IF Head(l) = x THEN Tail(l)
  ELSE <<Head(l)>> \o ListRemove(Tail(l), x)

\* get_events: list(self._queue), filtered when since_sequence is not None
SelectSinceInclusive(q, s) ==
  IF s = None THEN q
  ELSE SelectSeq(q, LAMBDA m : msgSeq[m] >= s[1])
SelectSince(q, s) ==
  IF s = None THEN q
  ELSE SelectSeq(q, LAMBDA m : msgSeq[m] > s[1])

Range(f) == {f[i] : i \in DOMAIN f}

\* where a task continues when a broker call returns
After(t, op) ==
  IF t \in Tasks THEN "idle"
  ELSE IF t \in Runs THEN "w_run"
  ELSE CASE op = "get" -> "c_yield"
         [] op = "reg" -> "c_live"
         [] op = "unreg" -> "c_close"
         [] OTHER -> "c_del"

(* ----------------------- stored conversations ------------------------- *)
\* the stored conversation: absent, present without messages, with messages
Conversations == {"absent", "no_messages", "messages"}
NoConversation == [exists |-> FALSE, messages |-> <<>>]
\* a stored conversation with the turns 1..k, user and assistant in turn
Turns(k) ==
  [i \in 1..k |-> [role |-> IF i % 2 = 1 THEN "user" ELSE "assistant",
                   sequence_number |-> i]]
Stored(k) == [exists |-> TRUE, messages |-> Turns(k)]
\* the conversations a run of the workflow model starts from
ConversationOf(c) ==
  CASE c = "absent" -> NoConversation
    [] c = "no_messages" -> Stored(0)
    [] c = "messages" -> Stored(1)
RunConversations == {ConversationOf(c) : c \in Conversations}

(* ------------------------------- Init ---------------------------------- *)
\* no workflow run has started
InitRun ==
  /\ wfState = "off"
  /\ steps = <<>>
  /\ ex = [e \in Executors |-> "idle"]
  /\ left = [e \in Specialists |-> 0]
  /\ sent = [e \in Specialists |-> 0]
  /\ sumIn = <<>>
  /\ runs = [e \in Executors |-> 0]
  /\ raised = FALSE

(* ------------------- the per-analysis EventQueue ----------------------- *)
AnalysisIds == {"a1", "a2"}
\* the data payloads of event messages: None, a dict without the key
\* 'sequence', a dict with it, and a value that is no dict
NoData == [kind |-> "None", sequence |-> NoSeq]
DictData(k) == [kind |-> "dict", sequence |-> k]
StrData == [kind |-> "str", sequence |-> NoSeq]
MaxDataSequence == 1
Payloads == {NoData, StrData} \cup {DictData(k) : k \in {NoSeq} \cup 0..MaxDataSequence}
\* no get_events call has returned yet
NoCall ==
  [called |-> FALSE, analysis_id |-> "", since_sequence |-> None, buffer |-> <<>>,
   raised |-> FALSE, events |-> <<>>]
\* EventQueue.__init__: no queue, every counter 0
NewEventQueue ==
  [queues |-> [a \in AnalysisIds |-> <<>>],
   sequence_numbers |-> [a \in AnalysisIds |-> 0],
   got |-> NoCall]

\* everything but the session registry and the state of the workflow run
InitState ==
  /\ eventQueue = NewEventQueue
  /\ queue = [b \in Brokers |-> <<>>]
  /\ sequence_number = [b \in Brokers |-> 0]
  /\ listeners = [b \in Brokers |-> <<>>]
  /\ lock = [b \in Brokers |-> NoTask]
  /\ chan = [h \in Handles |-> <<>>]
  /\ nHandles = 0
  /\ msgSeq = [m \in Msgs |-> NoSeq]
  /\ msgTime = [m \in Msgs |-> ImportTime]
  /\ nMsgs = 0
  /\ tb = [t \in AllTasks |-> 0]
  /\ arg = [t \in AllTasks |-> 0]
  /\ idx = [t \in AllTasks |-> 0]
  /\ res = [t \in AllTasks |-> <<>>]
  /\ handle = [t \in AllTasks |-> 0]
  /\ since = [t \in AllTasks |-> None]
  /\ out = [t \in AllTasks |-> <<>>]
  /\ pubLog = [b \in Brokers |-> <<>>]
  /\ lastReset = [b \in Brokers |-> 0]
  /\ regAt = [h \in Handles |-> 0]
  /\ hb = [h \in Handles |-> 0]
  /\ recv = [h \in Handles |-> <<>>]
  /\ keyError = FALSE
  /\ conn = [t \in AllTasks |-> 0]
  /\ pubAt = [t \in AllTasks |-> 0]
  /\ discAt = [t \in AllTasks |-> 0]
  /\ msgType = [m \in Msgs |-> NoType]
  /\ wfEvents = <<>>
  /\ next_seq_num = 0
  /\ toPersist = FALSE
  /\ turnLog = <<>>

\* everything but the state of the workflow run
InitBase ==
  /\ InitState
  /\ sessions = [s \in SessionIds |-> 0]

InitCommon ==
  /\ InitBase
  /\ InitRun
  /\ conv = NoConversation

\* one broker constructed directly, SSEStreamEventQueue(max_events = n)
Init ==
  /\ InitCommon
  /\ made = 1
  /\ \E n \in 0..MaxCap : max_events = [b \in Brokers |-> n]
  /\ pc = [t \in AllTasks |-> IF t \in Tasks THEN "idle" ELSE "off"]

(* --------------------- SSEStreamEventQueue methods --------------------- *)
\* the logical clock: the module was imported at ImportTime, and time moves
\* on by one with every call of add_event
RECURSIVE Calls(_)
Calls(n) == IF n = 0 THEN 0 ELSE Len(pubLog[n]) + Calls(n - 1)
Now == ImportTime + 1 + Calls(MaxBrokers)

\* add_event: the timestamp is set when the event has none
Timestamp(ts) == IF ts = NoTime THEN Now ELSE ts

\* add_event, from the acquisition of the lock to the first put
AddEventEnter(t, b, m) ==
  /\ lock[b] = NoTask
  /\ lock' = [lock EXCEPT ![b] = t]
  /\ msgSeq' = [msgSeq EXCEPT ![m] = AssignedSequence(b)]
  /\ msgTime' = [msgTime EXCEPT ![m] = Timestamp(@)]
  /\ sequence_number' = [sequence_number EXCEPT ![b] = NextSequence(@)]
  /\ queue' = [queue EXCEPT ![b] = DequeAppend(@, m, max_events[b])]
  /\ pubLog' = [pubLog EXCEPT ![b] = Append(@, [m |-> m, seq |-> AssignedSequence(b)])]
  /\ pc' = [pc EXCEPT ![t] = "add_put"]
  /\ tb' = [tb EXCEPT ![t] = b]
  /\ arg' = [arg EXCEPT ![t] = m]
  /\ idx' = [idx EXCEPT ![t] = 1]
  /\ UNCHANGED <<made, max_events, eventQueue, listeners, chanVars, sessions, res, handle,
                 since, lastReset, regAt, hb, recv, out, keyError, conn, pubAt, discAt, runVars>>

\* add_event: await listener_queue.put(event_msg) for the next listener
AddEventPut(t) ==
  /\ pc[t] = "add_put"
  /\ idx[t] <= Len(listeners[tb[t]])
  /\ LET h == listeners[tb[t]][idx[t]] IN
       /\ ~Full(chan[h])
       /\ chan' = [chan EXCEPT ![h] = QueuePut(@, arg[t])]
  /\ idx' = [idx EXCEPT ![t] = @ + 1]
  /\ UNCHANGED <<brokerVars, nHandles, msgVars, sessions, pc, tb, arg, res,
                 handle, since, histVars, discAt, wfVars>>

\* leaving a method's async with block: the lock is released, the call returns
Release(t, op) ==
  /\ lock' = [lock EXCEPT ![tb[t]] = NoTask]
  /\ pc' = [pc EXCEPT ![t] = After(t, op)]
  /\ arg' = [arg EXCEPT ![t] = 0]
  /\ idx' = [idx EXCEPT ![t] = 0]
  /\ UNCHANGED <<made, max_events, eventQueue, queue, sequence_number, listeners, chanVars,
                 msgVars, sessions, handle, since, histVars, discAt, wfVars>>

\* add_event: the loop over the listeners is over
AddEventExit(t) ==
  /\ pc[t] = "add_put"
  /\ idx[t] > Len(listeners[tb[t]])
  /\ Release(t, "add")
  /\ UNCHANGED <<tb, res>>

\* get_events, up to its return statement
GetEventsEnter(t, b, s) ==
  /\ lock[b] = NoTask
  /\ lock' = [lock EXCEPT ![b] = t]
  /\ res' = [res EXCEPT ![t] = SelectSince(queue[b], s)]
  /\ pc' = [pc EXCEPT ![t] = "get_exit"]
  /\ tb' = [tb EXCEPT ![t] = b]
  /\ arg' = [arg EXCEPT ![t] = s]
  /\ UNCHANGED <<made, max_events, eventQueue, queue, sequence_number, listeners, chanVars,
                 msgVars, sessions, idx, handle, since, histVars, discAt, wfVars>>

GetEventsExit(t) ==
  /\ pc[t] = "get_exit"
  /\ Release(t, "get")
  /\ res' = [res EXCEPT ![t] = IF t \in Tasks THEN <<>> ELSE @]
  /\ UNCHANGED tb

\* register_listener
RegisterEnter(t, b) ==
  /\ lock[b] = NoTask
  /\ nHandles < MaxHandles
  /\ LET h == nHandles + 1 IN
       /\ nHandles' = h
       /\ chan' = [chan EXCEPT ![h] = <<>>]
       /\ listeners' = [listeners EXCEPT ![b] = Append(@, h)]
       /\ handle' = [handle EXCEPT ![t] = h]
       /\ regAt' = [regAt EXCEPT ![h] = Len(pubLog[b])]
       /\ hb' = [hb EXCEPT ![h] = b]
  /\ lock' = [lock EXCEPT ![b] = t]
  /\ pc' = [pc EXCEPT ![t] = "reg_exit"]
  /\ tb' = [tb EXCEPT ![t] = b]
  /\ UNCHANGED <<made, max_events, eventQueue, queue, sequence_number, msgVars, sessions,
                 arg, idx, res, since, pubLog, lastReset, recv, out, keyError, conn, pubAt, discAt, wfVars>>

RegisterExit(t) ==
  /\ pc[t] = "reg_exit"
  /\ lock' = [lock EXCEPT ![tb[t]] = NoTask]
  /\ pc' = [pc EXCEPT ![t] = After(t, "reg")]
  /\ handle' = [handle EXCEPT ![t] = IF t \in Tasks THEN 0 ELSE @]
  /\ UNCHANGED <<made, max_events, eventQueue, queue, sequence_number, listeners, chanVars,
                 msgVars, sessions, tb, arg, idx, res, since, histVars, discAt, wfVars>>

\* unregister_listener
UnregisterEnter(t, b, h) ==
  /\ lock[b] = NoTask
  /\ lock' = [lock EXCEPT ![b] = t]
  /\ listeners' = [listeners EXCEPT ![b] = ListRemove(@, h)]
  /\ pc' = [pc EXCEPT ![t] = "unreg_exit"]
  /\ tb' = [tb EXCEPT ![t] = b]
  /\ arg' = [arg EXCEPT ![t] = h]
  /\ UNCHANGED <<made, max_events, eventQueue, queue, sequence_number, chanVars, msgVars,
                 sessions, idx, res, handle, since, histVars, wfVars>>

UnregisterExit(t) ==
  /\ pc[t] = "unreg_exit"
  /\ Release(t, "unreg")
  /\ UNCHANGED <<tb, res>>

\* clear_event_queue
ClearEnterNoLock(t, b) ==
  /\ lock' = [lock EXCEPT ![b] = t]
  /\ IF queue[b] # <<>>
       THEN /\ queue' = [queue EXCEPT ![b] = <<>>]
            /\ sequence_number' = [sequence_number EXCEPT ![b] = 0]
            /\ lastReset' = [lastReset EXCEPT ![b] = Len(pubLog[b])]
       ELSE UNCHANGED <<queue, sequence_number, lastReset>>
  /\ listeners' = [listeners EXCEPT ![b] = <<>>]
  /\ pc' = [pc EXCEPT ![t] = "clear_exit"]
  /\ tb' = [tb EXCEPT ![t] = b]
  /\ UNCHANGED <<made, max_events, eventQueue, chanVars, msgVars, sessions, arg, idx, res,
                 handle, since, pubLog, regAt, hb, recv, out, keyError, conn, pubAt, discAt, wfVars>>
ClearEnter(t, b) ==
  /\ lock[b] = NoTask
  /\ lock' = [lock EXCEPT ![b] = t]
  /\ IF queue[b] # <<>>
       THEN /\ queue' = [queue EXCEPT ![b] = <<>>]
            /\ sequence_number' = [sequence_number EXCEPT ![b] = 0]
            /\ lastReset' = [lastReset EXCEPT ![b] = Len(pubLog[b])]
       ELSE UNCHANGED <<queue, sequence_number, lastReset>>
  /\ listeners' = [listeners EXCEPT ![b] = <<>>]
  /\ pc' = [pc EXCEPT ![t] = "clear_exit"]
  /\ tb' = [tb EXCEPT ![t] = b]
  /\ UNCHANGED <<made, max_events, eventQueue, chanVars, msgVars, sessions, arg, idx, res,
                 handle, since, pubLog, regAt, hb, recv, out, keyError, conn, pubAt, discAt, wfVars>>

ClearExit(t) ==
  /\ pc[t] = "clear_exit"
  /\ Release(t, "clear")
  /\ UNCHANGED <<tb, res>>

\* asyncio.Queue.get() on a listener queue that holds an event
ListenerGetNewest(h) ==
  /\ chan[h] # <<>>
  /\ chan' = [chan EXCEPT ![h] = SubSeq(@, 1, Len(@) - 1)]
  /\ recv' = [recv EXCEPT ![h] = Append(@, [m |-> chan[h][Len(chan[h])],
                                             seq |-> msgSeq[chan[h][Len(chan[h])]]])]
ListenerGet(h) ==
  /\ chan[h] # <<>>
  /\ chan' = [chan EXCEPT ![h] = Tail(@)]
  /\ recv' = [recv EXCEPT ![h] = Append(@, [m |-> Head(chan[h]), seq |-> msgSeq[Head(chan[h])]])]

(* ------------- tasks calling one broker's methods directly ------------- *)
\* a caller builds a new StreamEventMessage and passes it to add_event
NewEvent(t, n) ==
  /\ pc[t] = "idle"
  /\ nMsgs < n
  /\ nMsgs' = nMsgs + 1
  /\ UNCHANGED <<msgType, wfEvents, convVars>>
  /\ \E b \in 1..made : AddEventEnter(t, b, nMsgs + 1)

ApiAddEvent(t) == NewEvent(t, MaxMsgs)

ApiGetEvents(t) ==
  /\ pc[t] = "idle"
  /\ \E b \in 1..made, s \in SinceArgs : GetEventsEnter(t, b, s)

ApiRegister(t) ==
  /\ pc[t] = "idle"
  /\ \E b \in 1..made : RegisterEnter(t, b)

ApiUnregister(t) ==
  /\ pc[t] = "idle"
  /\ UNCHANGED discAt
  /\ \E b \in 1..made, h \in 0..nHandles : UnregisterEnter(t, b, h)

ApiClear(t) ==
  /\ pc[t] = "idle"
  /\ \E b \in 1..made : ClearEnter(t, b)

ApiConsume ==
  /\ \E h \in 1..nHandles : ListenerGet(h)
  /\ UNCHANGED <<brokerVars, nHandles, msgVars, sessions, taskVars, pubLog,
                 lastReset, regAt, hb, out, keyError, conn, pubAt, discAt, wfVars>>

\* a caller passes add_event a StreamEventMessage that was published before
ApiRepublish(t) ==
  /\ pc[t] = "idle"
  /\ UNCHANGED <<nMsgs, msgType, wfEvents, convVars>>
  /\ \E b \in 1..made, m \in 1..nMsgs :
       /\ msgSeq[m] # NoSeq
       /\ Len(pubLog[b]) < MaxMsgs
       /\ AddEventEnter(t, b, m)

(* buffer and counter: add_event, get_events, register_listener, clear *)
Next ==
  \/ \E t \in Tasks : ApiAddEvent(t)
  \/ \E t \in Tasks : AddEventPut(t)
  \/ \E t \in Tasks : AddEventExit(t)
  \/ \E t \in Tasks : ApiGetEvents(t)
  \/ \E t \in Tasks : GetEventsExit(t)
  \/ \E t \in Tasks : ApiRegister(t)
  \/ \E t \in Tasks : RegisterExit(t)
  \/ \E t \in Tasks : ApiClear(t)
  \/ \E t \in Tasks : ClearExit(t)

Spec == Init /\ [][Next]_vars

(* listeners: add_event, register, unregister, clear, and the consumers *)
ListenAddEvent(t) == NewEvent(t, MaxListenMsgs)

InitListeners ==
  /\ InitCommon
  /\ made = 1
  /\ max_events = [b \in Brokers |-> DefaultMaxEvents]
  /\ pc = [t \in AllTasks |-> IF t \in Tasks THEN "idle" ELSE "off"]

NextListeners ==
  \/ \E t \in Tasks : ListenAddEvent(t)
  \/ \E t \in Tasks : AddEventPut(t)
  \/ \E t \in Tasks : AddEventExit(t)
  \/ \E t \in Tasks : ApiRegister(t)
  \/ \E t \in Tasks : RegisterExit(t)
  \/ \E t \in Tasks : ApiUnregister(t)
  \/ \E t \in Tasks : UnregisterExit(t)
  \/ \E t \in Tasks : ApiClear(t)
  \/ \E t \in Tasks : ClearExit(t)
  \/ ApiConsume

SpecListeners == InitListeners /\ [][NextListeners]_vars

\* a publisher inside add_event is scheduled again; consumers need never read
SpecListenersFair ==
  SpecListeners /\ \A t \in Tasks : WF_vars(AddEventPut(t) \/ AddEventExit(t))

(* ======================= properties of the broker ====================== *)
Seqs(log) == [k \in DOMAIN log |-> log[k].seq]
MsgSeqs(l) == [k \in DOMAIN l |-> msgSeq[l[k]]]

\* C1: as long as the counter of a broker was never reset, the k-th add_event
\* on it is assigned sequence k-1 (0, 1, 2, ...), whichever tasks make the
\* calls, and the published object carries that number.
C1_SequencesFromZero ==
  \A b \in 1..made :
    lastReset[b] = 0 =>
      \A k \in DOMAIN pubLog[b] :
        /\ pubLog[b][k].seq = k - 1
        /\ msgSeq[pubLog[b][k].m] = k - 1

C1_Witness ==
  \E b \in 1..made :
    /\ lastReset[b] = 0
    /\ Len(pubLog[b]) >= 3
    /\ Seqs(pubLog[b])[3] = 2

\* C4: while get_events(since_sequence = s) is about to return, its result
\* holds exactly the buffered events with sequence > s (all of them for None),
\* in ascending sequence order; the call leaves the buffer, the counter, the
\* listeners, their queues and the events' fields as they were.
C4_Result ==
  \A t \in Tasks :
    pc[t] = "get_exit" =>
      LET q == queue[tb[t]]
          s == arg[t]
          r == res[t]
      IN /\ \A i \in DOMAIN r :
              /\ r[i] \in Range(q)
              /\ s # None => msgSeq[r[i]] > s[1]
         /\ \A j \in DOMAIN q :
              (s = None \/ msgSeq[q[j]] > s[1]) => q[j] \in Range(r)
         /\ \A i, j \in DOMAIN r : i < j => msgSeq[r[i]] < msgSeq[r[j]]

C4_NoSideEffect ==
  \A t \in Tasks :
    (pc[t] = "get_exit" \/ pc'[t] = "get_exit") =>
      UNCHANGED <<queue, sequence_number, listeners, chan, msgSeq, max_events>>

C4_GetEvents == []C4_Result /\ [][C4_NoSideEffect]_vars

C4_Witness ==
  \E t \in Tasks :
    /\ pc[t] = "get_exit"
    /\ arg[t] = <<0>>
    /\ Len(queue[tb[t]]) = 2
    /\ Len(res[t]) = 1
    /\ msgSeq[queue[tb[t]][1]] = 0

\* C6: a broker of capacity N whose buffer was never cleared and that has
\* published k > N events returns from get_events() the N most recently
\* published events, oldest first, each with the sequence assigned at publish
\* (k-N .. k-1).
C6_RingBuffer ==
  \A t \in Tasks :
    (pc[t] = "get_exit" /\ arg[t] = None) =>
      LET b == tb[t]
          n == max_events[b]
          k == Len(pubLog[b])
      IN (lastReset[b] = 0 /\ k > n) =>
           /\ Len(res[t]) = n
           /\ \A i \in 1..n :
                /\ res[t][i] = pubLog[b][k - n + i].m
                /\ msgSeq[res[t][i]] = pubLog[b][k - n + i].seq
                /\ msgSeq[res[t][i]] = k - n + i - 1

C6_Witness ==
  \E t \in Tasks :
    /\ pc[t] = "get_exit"
    /\ arg[t] = None
    /\ max_events[tb[t]] = 2
    /\ lastReset[tb[t]] = 0
    /\ Len(pubLog[tb[t]]) = 3
    /\ MsgSeqs(res[t]) = <<1, 2>>

\* C8 as claimed: every sequence an add_event assigns is greater than every
\* sequence the same broker object assigned before, teardowns included.
C8_NeverReused ==
  \A b \in 1..made :
    \A i, j \in DOMAIN pubLog[b] :
      i < j => pubLog[b][i].seq < pubLog[b][j].seq

\* C8 amended: the sequences a broker assigns are strictly increasing between
\* two resets of its counter: the k-th add_event after the last
\* clear_event_queue that found the buffer non-empty is assigned k-1, and the
\* counter is always the number of events published since that reset.
C8_IncreasingSinceReset ==
  \A b \in 1..made :
    /\ sequence_number[b] = Len(pubLog[b]) - lastReset[b]
    /\ \A i, j \in (lastReset[b] + 1)..Len(pubLog[b]) :
         i < j => pubLog[b][i].seq < pubLog[b][j].seq
    /\ \A i \in (lastReset[b] + 1)..Len(pubLog[b]) :
         pubLog[b][i].seq = i - 1 - lastReset[b]

C8_Witness ==
  \E b \in 1..made :
    /\ lastReset[b] = 1
    /\ Seqs(pubLog[b]) = <<0, 0, 1>>

(* ----------------------- properties of the listeners ------------------- *)
Pos(l, x) == CHOOSE i \in DOMAIN l : l[i] = x
RecvMsgs(h) == [i \in DOMAIN recv[h] |-> recv[h][i].m]
\* the events published on h's broker since h registered
PublishedSince(h) ==
  [k \in 1..(Len(pubLog[hb[h]]) - regAt[h]) |-> pubLog[hb[h]][regAt[h] + k]]
\* an add_event is between its append to the buffer and its put to h
PutPending(h) ==
  \E t \in AllTasks :
    /\ pc[t] = "add_put"
    /\ tb[t] = hb[h]
    /\ h \in Range(listeners[hb[h]])
    /\ Pos(listeners[hb[h]], h) >= idx[t]
Front(l) == SubSeq(l, 1, Len(l) - 1)

\* C2: for a listener that is registered, the events it has dequeued followed
\* by those waiting in its queue are exactly the events published since it
\* registered, in publish order, once each (less the one event an add_event
\* in progress has not put yet); each dequeued event carries the sequence it
\* was assigned.
C2_ListenerReceivesAll ==
  \A h \in 1..nHandles :
    h \in Range(listeners[hb[h]]) =>
      LET pub == PublishedSince(h)
          due == IF PutPending(h) THEN Front(pub) ELSE pub
      IN /\ RecvMsgs(h) \o chan[h] = [k \in DOMAIN due |-> due[k].m]
         /\ \A i \in DOMAIN recv[h] : recv[h][i].seq = due[i].seq

C2_Witness ==
  \E h \in 1..nHandles :
    /\ h \in Range(listeners[hb[h]])
    /\ Len(recv[h]) = 2
    /\ Len(PublishedSince(h)) = 2
    /\ nHandles = 2

\* C10: add_event is never kept waiting by a listener queue: a task inside
\* add_event holds the lock, has appended its event to the buffer, finds the
\* queue of the next listener not full, leaves add_event with the lock
\* released, and does leave it even when no consumer ever reads.
C10_NotBlocked ==
  \A t \in Tasks :
    pc[t] = "add_put" =>
      /\ lock[tb[t]] = t
      /\ queue[tb[t]] # <<>>
      /\ queue[tb[t]][Len(queue[tb[t]])] = arg[t]
      /\ idx[t] <= Len(listeners[tb[t]]) =>
           ~Full(chan[listeners[tb[t]][idx[t]]])

C10_Releases ==
  \A t \in Tasks :
    (pc[t] = "add_put" /\ pc'[t] # "add_put") =>
      /\ lock'[tb[t]] = NoTask
      /\ arg[t] \in Range(queue'[tb[t]])

C10_Terminates == \A t \in Tasks : (pc[t] = "add_put") ~> (pc[t] = "idle")

C10_AddEventNeverBlocks ==
  /\ []C10_NotBlocked
  /\ [][C10_Releases]_vars
  /\ C10_Terminates

C10_Witness ==
  \E t \in Tasks :
    /\ pc[t] = "add_put"
    /\ Len(listeners[tb[t]]) = 2
    /\ idx[t] = 2
    /\ \A h \in Range(listeners[tb[t]]) : recv[h] = <<>>
    /\ Len(chan[listeners[tb[t]][1]]) = 2
    /\ Len(chan[listeners[tb[t]][2]]) = 1

(* add_event called again with an object that is already in the buffer *)
NextRepublish ==
  \/ \E t \in Tasks : ApiAddEvent(t)
  \/ \E t \in Tasks : ApiRepublish(t)
  \/ \E t \in Tasks : AddEventExit(t)

SpecRepublish == Init /\ [][NextRepublish]_vars

\* C7: the sequence of a published event never changes (every event still
\* carries the number add_event assigned to it), and no two entries of the
\* buffer carry the same sequence, also when add_event is passed an object
\* that was published before.
C7_SequenceImmutable ==
  \A b \in 1..made :
    /\ \A k \in DOMAIN pubLog[b] : msgSeq[pubLog[b][k].m] = pubLog[b][k].seq
    /\ \A i, j \in DOMAIN queue[b] :
         i < j => msgSeq[queue[b][i]] # msgSeq[queue[b][j]]

(* ================== sessions, workflow and SSE streams ================== *)
\* get_sse_event_queue_for_session: the broker of the session, created on
\* first use with the default capacity
SessionQueue(sid) == IF sessions[sid] = 0 THEN made + 1 ELSE sessions[sid]
GetSessionQueueAlwaysCreates(sid) ==
  /\ made < MaxBrokers
  /\ made' = made + 1
  /\ sessions' = [sessions EXCEPT ![sid] = made + 1]
GetSessionQueue(sid) ==
  IF sessions[sid] = 0
    THEN /\ made < MaxBrokers
         /\ made' = made + 1
         /\ sessions' = [sessions EXCEPT ![sid] = made + 1]
    ELSE UNCHANGED <<made, sessions>>

\* start_analysis: the background workflow is handed the session's broker
WorkerStart(w) ==
  /\ pc[w] = "off"
  /\ \E sid \in SessionIds :
       /\ GetSessionQueue(sid)
       /\ tb' = [tb EXCEPT ![w] = SessionQueue(sid)]
  /\ pc' = [pc EXCEPT ![w] = "w_run"]
  /\ UNCHANGED <<max_events, eventQueue, queue, sequence_number, listeners, lock, chanVars,
                 msgVars, arg, idx, res, handle, since, histVars, discAt, wfVars>>

\* the workflow emits its next event: add_event(StreamEventMessage(...))
WorkerPublish(w, n) ==
  /\ pc[w] = "w_run"
  /\ nMsgs < n
  /\ nMsgs' = nMsgs + 1
  /\ UNCHANGED <<msgType, wfEvents, convVars>>
  /\ AddEventEnter(w, tb[w], nMsgs + 1)

\* events the workflow has published so far
Published == IF tb["w1"] = 0 THEN 0 ELSE Len(pubLog[tb["w1"]])

\* stream_analysis_events up to the StreamingResponse
ClientConnect(c, n, S) ==
  /\ pc[c] = "off"
  /\ conn[c] < n
  /\ \E sid \in SessionIds :
       /\ GetSessionQueue(sid)
       /\ tb' = [tb EXCEPT ![c] = SessionQueue(sid)]
  /\ \E s \in S : since' = [since EXCEPT ![c] = s]
  /\ pc' = [pc EXCEPT ![c] = "c_hist"]
  /\ out' = [out EXCEPT ![c] = <<>>]
  /\ conn' = [conn EXCEPT ![c] = @ + 1]
  /\ pubAt' = [pubAt EXCEPT ![c] = Published]
  /\ UNCHANGED <<max_events, eventQueue, queue, sequence_number, listeners, lock, chanVars,
                 msgVars, arg, idx, res, handle, pubLog, lastReset, regAt, hb,
                 recv, keyError, discAt, wfVars>>

\* event_generator: the historical events are fetched
ClientHistory(c) ==
  /\ pc[c] = "c_hist"
  /\ GetEventsEnter(c, tb[c], since[c])

\* event_generator: yield event.to_sse_format() for the next historical event
ClientYield(c) ==
  /\ pc[c] = "c_yield"
  /\ res[c] # <<>>
  /\ out' = [out EXCEPT ![c] = Append(@, msgSeq[Head(res[c])])]
  /\ res' = [res EXCEPT ![c] = Tail(@)]
  /\ UNCHANGED <<brokerVars, chanVars, msgVars, sessions, pc, tb, arg, idx,
                 handle, since, pubLog, lastReset, regAt, hb, recv, keyError, conn, pubAt, discAt, wfVars>>

\* event_generator: register for live updates once the history is sent
ClientRegister(c) ==
  /\ pc[c] = "c_yield"
  /\ res[c] = <<>>
  /\ RegisterEnter(c, tb[c])

\* event_generator: a live event arrives on the listener queue and is yielded
\* (the 30 s timeout only yields a keep-alive comment and waits again)
ClientLive(c) ==
  /\ pc[c] = "c_live"
  /\ ListenerGet(handle[c])
  /\ out' = [out EXCEPT ![c] = Append(@, msgSeq[Head(chan[handle[c]])])]
  /\ UNCHANGED <<brokerVars, nHandles, msgVars, sessions, taskVars, pubLog,
                 lastReset, regAt, hb, keyError, conn, pubAt, discAt, wfVars>>

\* the client disconnects while live events are streamed: CancelledError runs
\* the inner finally, unregister_listener(listener_queue)
ClientDisconnect(c) ==
  /\ pc[c] = "c_live"
  /\ discAt' = [discAt EXCEPT ![c] = Published]
  /\ UnregisterEnter(c, tb[c], handle[c])

\* the client disconnects while the history is replayed: only the outer
\* finally runs
ClientDisconnectEarly(c) ==
  /\ pc[c] = "c_yield"
  /\ pc' = [pc EXCEPT ![c] = "c_close"]
  /\ res' = [res EXCEPT ![c] = <<>>]
  /\ discAt' = [discAt EXCEPT ![c] = Published]
  /\ UNCHANGED <<brokerVars, chanVars, msgVars, sessions, tb, arg, idx, handle,
                 since, histVars, wfVars>>

\* clean_up -> close_sse_event_queue_for_session: the session has a broker,
\* whose clear_event_queue is awaited
ClientClose(c) ==
  /\ pc[c] = "c_close"
  /\ \E sid \in SessionIds :
       /\ sessions[sid] # 0
       /\ tb' = [tb EXCEPT ![c] = sessions[sid]]
  /\ pc' = [pc EXCEPT ![c] = "c_clear"]
  /\ UNCHANGED <<brokerVars, chanVars, msgVars, sessions, arg, idx, res, handle,
                 since, histVars, discAt, wfVars>>

ClientClear(c) ==
  /\ pc[c] = "c_clear"
  /\ ClearEnter(c, tb[c])

\* the generator is finished: the request is over
Finished(c) ==
  /\ pc' = [pc EXCEPT ![c] = "off"]
  /\ tb' = [tb EXCEPT ![c] = 0]
  /\ handle' = [handle EXCEPT ![c] = 0]
  /\ since' = [since EXCEPT ![c] = None]

\* close_sse_event_queue_for_session: the session has no broker
ClientCloseAbsent(c) ==
  /\ pc[c] = "c_close"
  /\ \E sid \in SessionIds : sessions[sid] = 0
  /\ Finished(c)
  /\ UNCHANGED <<brokerVars, chanVars, msgVars, sessions, arg, idx, res, histVars, discAt, wfVars>>

\* close_sse_event_queue_for_session: del _sse_event_queue_sessions[session_id]
ClientDelKeepsKey(c) ==
  /\ pc[c] = "c_del"
  /\ Finished(c)
  /\ UNCHANGED <<brokerVars, chanVars, msgVars, sessions, arg, idx, res, histVars, discAt, wfVars>>
ClientDel(c) ==
  /\ pc[c] = "c_del"
  /\ \E sid \in SessionIds :
       /\ sessions' = [sessions EXCEPT ![sid] = 0]
       /\ keyError' = (keyError \/ sessions[sid] = 0)
  /\ Finished(c)
  /\ UNCHANGED <<brokerVars, chanVars, msgVars, arg, idx, res, pubLog, lastReset,
                 regAt, hb, recv, out, conn, pubAt, discAt, wfVars>>

InitStream ==
  /\ InitCommon
  /\ made = 0
  /\ max_events = [b \in Brokers |-> DefaultMaxEvents]
  /\ pc = [t \in AllTasks |-> IF t \in Tasks THEN "idle" ELSE "off"]

\* two clients stream the same session, each with one request
StreamPublish(w) == WorkerPublish(w, MaxStreamEvents)
StreamConnect(c) == ClientConnect(c, MaxStreamConnects, {None, <<0>>})

NextStream ==
  \/ \E w \in Workers : WorkerStart(w)
  \/ \E w \in Workers : StreamPublish(w)
  \/ \E w \in Workers : AddEventPut(w)
  \/ \E w \in Workers : AddEventExit(w)
  \/ \E c \in Clients : StreamConnect(c)
  \/ \E c \in Clients : ClientHistory(c)
  \/ \E c \in Clients : GetEventsExit(c)
  \/ \E c \in Clients : ClientYield(c)
  \/ \E c \in Clients : ClientRegister(c)
  \/ \E c \in Clients : RegisterExit(c)
  \/ \E c \in Clients : ClientLive(c)
  \/ \E c \in Clients : ClientDisconnect(c)
  \/ \E c \in Clients : UnregisterExit(c)
  \/ \E c \in Clients : ClientDisconnectEarly(c)
  \/ \E c \in Clients : ClientClose(c)
  \/ \E c \in Clients : ClientClear(c)
  \/ \E c \in Clients : ClearExit(c)
  \/ \E c \in Clients : ClientCloseAbsent(c)
  \/ \E c \in Clients : ClientDel(c)

SpecStream == InitStream /\ [][NextStream]_vars

\* one client streams, disconnects and streams again
ReplayPublish(w) == WorkerPublish(w, MaxReplayEvents)
ReplayConnect(c) == ClientConnect(c, MaxConnects, {None, <<2>>})
Reconnecting == {"c1"}

NextReconnect ==
  \/ \E w \in Workers : WorkerStart(w)
  \/ \E w \in Workers : ReplayPublish(w)
  \/ \E w \in Workers : AddEventPut(w)
  \/ \E w \in Workers : AddEventExit(w)
  \/ \E c \in Reconnecting : ReplayConnect(c)
  \/ \E c \in Reconnecting : ClientHistory(c)
  \/ \E c \in Reconnecting : GetEventsExit(c)
  \/ \E c \in Reconnecting : ClientYield(c)
  \/ \E c \in Reconnecting : ClientRegister(c)
  \/ \E c \in Reconnecting : RegisterExit(c)
  \/ \E c \in Reconnecting : ClientLive(c)
  \/ \E c \in Reconnecting : ClientDisconnect(c)
  \/ \E c \in Reconnecting : UnregisterExit(c)
  \/ \E c \in Reconnecting : ClientDisconnectEarly(c)
  \/ \E c \in Reconnecting : ClientClose(c)
  \/ \E c \in Reconnecting : ClientClear(c)
  \/ \E c \in Reconnecting : ClearExit(c)
  \/ \E c \in Reconnecting : ClientDel(c)

SpecReconnect == InitStream /\ [][NextReconnect]_vars

C5_ReconnectReplay ==
  \A c \in Reconnecting :
    (/\ pc[c] = "reg_exit"
     /\ conn[c] = 2
     /\ since[c] = <<2>>
     /\ discAt[c] = 5
     /\ pubAt[c] = 5
     /\ Seqs(pubLog[tb["w1"]]) = <<0, 1, 2, 3, 4>>) =>
      out[c] = <<3, 4>>

\* C9: a client whose stream is live has dequeued, or still has queued, every
\* event published on its broker since it subscribed, whatever the other
\* clients of the session do (connect, disconnect and clean up).
C9_SubscribersReceiveAll ==
  \A c \in Clients :
    pc[c] = "c_live" =>
      LET h == handle[c]
          pub == PublishedSince(h)
          due == IF PutPending(h) THEN Front(pub) ELSE pub
      IN RecvMsgs(h) \o chan[h] = [k \in DOMAIN due |-> due[k].m]

(* ------------------- full listener queues, unregister ------------------ *)
\* C11: the queue of every registered listener has a bound (a positive
\* maxsize) and never holds more events than that bound, so that an
\* add_event finding it full would skip that listener.
C11_ListenerChannelBounded ==
  \A b \in 1..made :
    \A h \in Range(listeners[b]) :
      /\ ListenerMaxSize > 0
      /\ Len(chan[h]) <= ListenerMaxSize

\* C12: a call of unregister_listener(h) leaves the buffer, the counter, the
\* capacity, the events and every listener queue as they were, and leaves
\* the listener list as it was less h: the list itself when h is not in it
\* (never registered, or removed before), the other listeners in their order
\* when it is.
C12_UnregisterStep ==
  \A t \in Tasks :
    (pc[t] = "idle" /\ pc'[t] = "unreg_exit") =>
      LET b == tb'[t]
          h == arg'[t]
      IN /\ UNCHANGED <<queue, sequence_number, max_events, eventQueue, msgSeq, chan>>
         /\ listeners'[b] = SelectSeq(listeners[b], LAMBDA x : x # h)
         /\ h \notin Range(listeners[b]) => listeners'[b] = listeners[b]
         /\ \A c \in 1..made : c # b => listeners'[c] = listeners[c]

C12_UnregisterReturns ==
  \A t \in Tasks :
    (pc[t] = "unreg_exit" /\ pc'[t] # "unreg_exit") =>
      /\ pc'[t] = "idle"
      /\ lock'[tb[t]] = NoTask
      /\ UNCHANGED <<queue, sequence_number, listeners, chan>>

C12_UnregisterIdempotent ==
  [][C12_UnregisterStep /\ C12_UnregisterReturns]_vars

\* unregister_listener of a queue that was never registered (handle 0) is
\* about to return, two listeners registered
C12_Witness ==
  \E t \in Tasks :
    /\ pc[t] = "unreg_exit"
    /\ arg[t] = 0
    /\ listeners[tb[t]] = <<1, 2>>
    /\ lock[tb[t]] = t

(* ------------------------------ teardown ------------------------------- *)
\* C13: when clear_event_queue is about to return, whatever the capacity of
\* the broker and whatever was published before, the buffer is empty, the
\* next-sequence counter is 0 and no listener is registered.
C13_TeardownResets ==
  \A t \in Tasks :
    pc[t] = "clear_exit" =>
      /\ queue[tb[t]] = <<>>
      /\ sequence_number[tb[t]] = 0
      /\ listeners[tb[t]] = <<>>

\* the streams with their tasks scheduled: a workflow inside add_event and a
\* generator that has an event to yield or a broker call to finish keep
\* running; connecting and disconnecting are the clients' choice
SpecStreamFair ==
  /\ SpecStream
  /\ \A w \in Workers : WF_vars(AddEventPut(w) \/ AddEventExit(w))
  /\ \A c \in Clients :
       WF_vars(\/ ClientLive(c) \/ ClientHistory(c) \/ GetEventsExit(c)
               \/ ClientYield(c) \/ RegisterExit(c) \/ UnregisterExit(c)
               \/ ClientClose(c) \/ ClientClear(c) \/ ClearExit(c)
               \/ ClientCloseAbsent(c) \/ ClientDel(c))

\* C14: a generator that waits on its listener queue when a teardown has
\* removed that queue from the broker's listeners eventually leaves the
\* wait loop (its stream ends) instead of waiting on the queue forever.
C14_TeardownReleasesConsumers ==
  \A c \in Clients :
    (/\ pc[c] = "c_live"
     /\ handle[c] \notin Range(listeners[tb[c]])
     /\ chan[handle[c]] = <<>>)
      ~> (pc[c] # "c_live")

(* close_sse_event_queue_for_session called again and again by one task, *)
(* while a workflow publishes and another client streams the session     *)
Closers == {"c1"}
Listening == {"c2"}

\* a call of close_sse_event_queue_for_session(session_id) begins
CloseCall(c) ==
  /\ pc[c] = "off"
  /\ pc' = [pc EXCEPT ![c] = "c_close"]
  /\ UNCHANGED <<brokerVars, chanVars, msgVars, sessions, tb, arg, idx, res,
                 handle, since, histVars, discAt, wfVars>>

NextClose ==
  \/ \E w \in Workers : WorkerStart(w)
  \/ \E w \in Workers : StreamPublish(w)
  \/ \E w \in Workers : AddEventPut(w)
  \/ \E w \in Workers : AddEventExit(w)
  \/ \E c \in Listening : StreamConnect(c)
  \/ \E c \in Listening : ClientHistory(c)
  \/ \E c \in Listening : GetEventsExit(c)
  \/ \E c \in Listening : ClientYield(c)
  \/ \E c \in Listening : ClientRegister(c)
  \/ \E c \in Listening : RegisterExit(c)
  \/ \E c \in Listening : ClientLive(c)
  \/ \E c \in Closers : CloseCall(c)
  \/ \E c \in Closers : ClientClose(c)
  \/ \E c \in Closers : ClientClear(c)
  \/ \E c \in Closers : ClearExit(c)
  \/ \E c \in Closers : ClientCloseAbsent(c)
  \/ \E c \in Closers : ClientDel(c)

SpecClose == InitStream /\ [][NextClose]_vars

\* C15: a call of close_sse_event_queue_for_session that finds no broker for
\* the session returns at once, changing nothing and raising nothing; a call
\* that finds one ends with the session's entry removed, so that the call
\* after it is of the first kind and leaves the state of the first call; no
\* call raises KeyError.
C15_CloseAbsentIsNoop ==
  \A c \in Closers :
    /\ (pc[c] = "c_close" /\ pc'[c] = "off") =>
         /\ \A sid \in SessionIds : sessions[sid] = 0
         /\ UNCHANGED <<brokerVars, chanVars, msgVars, sessions, keyError>>
    /\ (pc[c] = "c_close" /\ pc'[c] = "c_clear") =>
         \E sid \in SessionIds : sessions[sid] # 0 /\ tb'[c] = sessions[sid]

C15_CloseRemovesSession ==
  \A c \in Closers :
    (pc[c] = "c_del" /\ pc'[c] = "off") =>
      /\ \A sid \in SessionIds : sessions'[sid] = 0
      /\ UNCHANGED <<made, max_events, eventQueue, queue, sequence_number, listeners, chan>>

C15_CloseIdempotent ==
  /\ [](keyError = FALSE)
  /\ [][C15_CloseAbsentIsNoop /\ C15_CloseRemovesSession]_vars

\* a close call finds the session absent after an earlier call removed a
\* broker that had published events
C15_Witness ==
  \E c \in Closers :
    /\ pc[c] = "c_close"
    /\ \A sid \in SessionIds : sessions[sid] = 0
    /\ made = 1
    /\ Len(pubLog[1]) = 2
    /\ queue[1] = <<>>

(* ---------------- all five methods of one broker, two tasks ------------ *)
ExclAddEvent(t) == NewEvent(t, MaxExclMsgs)

NextExclusion ==
  \/ \E t \in Tasks : ExclAddEvent(t)
  \/ \E t \in Tasks : AddEventPut(t)
  \/ \E t \in Tasks : AddEventExit(t)
  \/ \E t \in Tasks : ApiGetEvents(t)
  \/ \E t \in Tasks : GetEventsExit(t)
  \/ \E t \in Tasks : ApiRegister(t)
  \/ \E t \in Tasks : RegisterExit(t)
  \/ \E t \in Tasks : ApiUnregister(t)
  \/ \E t \in Tasks : UnregisterExit(t)
  \/ \E t \in Tasks : ApiClear(t)
  \/ \E t \in Tasks : ClearExit(t)

SpecExclusion == InitListeners /\ [][NextExclusion]_vars

\* task t is inside the async with block of a method of broker b
InCriticalSection(t, b) ==
  /\ pc[t] \in {"add_put", "get_exit", "reg_exit", "unreg_exit", "clear_exit"}
  /\ tb[t] = b

\* C16: at most one task at a time is inside a method of a broker object
\* (add_event, register_listener, unregister_listener, clear_event_queue,
\* get_events), and it holds the broker's lock; a get_events about to return
\* finds every event that was assigned a sequence since the last reset in
\* the buffer, the counter being the number of those events.
C16_MutualExclusion ==
  \A b \in 1..made :
    /\ \A t, u \in Tasks :
         (InCriticalSection(t, b) /\ InCriticalSection(u, b)) => t = u
    /\ \A t \in Tasks : InCriticalSection(t, b) <=> lock[b] = t
    /\ \A t \in Tasks :
         (pc[t] = "get_exit" /\ tb[t] = b) =>
           /\ queue[b] = [k \in 1..(Len(pubLog[b]) - lastReset[b]) |->
                            pubLog[b][lastReset[b] + k].m]
           /\ sequence_number[b] = Len(queue[b])
           /\ \A m \in 1..nMsgs : msgSeq[m] # NoSeq

\* a get_events is about to return and holds the lock: one event published,
\* two listeners registered, the other task outside every method
C16_Witness ==
  \E t, u \in Tasks :
    /\ t # u
    /\ pc[t] = "get_exit"
    /\ pc[u] = "idle"
    /\ Len(queue[tb[t]]) = 1
    /\ Len(listeners[tb[t]]) = 2
    /\ nMsgs = 1

(* --------------------------- order per listener ------------------------ *)
\* C17: whatever the interleaving of publishers, register_listener,
\* unregister_listener and clear_event_queue calls, the sequence numbers a
\* listener has dequeued from its queue are strictly increasing, and those
\* still waiting in its queue follow them in increasing order.
C17_ListenerOrder ==
  \A h \in 1..nHandles :
    LET seen == Seqs(recv[h]) \o MsgSeqs(chan[h])
    IN \A i, j \in DOMAIN seen : i < j => seen[i] < seen[j]

\* a listener dequeued events 0 and 1 and was then removed by a teardown
\* that reset the counter
C17_Witness ==
  \E h \in 1..nHandles :
    /\ Seqs(recv[h]) = <<0, 1>>
    /\ h \notin Range(listeners[hb[h]])
    /\ lastReset[hb[h]] = 2
    /\ sequence_number[hb[h]] = 0

(* ======================= the what-if workflow ========================== *)
(* WhatIfWorkflowExecutorService.execute_workflow runs the workflow built  *)
(* by WhatIfChatWorkflow.initialize_workflow (planner, fan-out to the four *)
(* specialists, fan-in to the summarizer) and hands every workflow event   *)
(* to _handle_event, which publishes it on the broker.  The workflow is an *)
(* async generator: it advances when the consumer asks for the next event. *)

\* assigned_agent values a plan may carry
AgentNames == {"Finance-Agent", "risk agent", "market_analyst_agent",
               "compliance-agent", "legal_agent"}
\* str.lower() on those values
Lower(a) == IF a = "Finance-Agent" THEN "finance-agent" ELSE a
\* the names each specialist's handle accepts
Aliases(s) ==
  CASE s = "financial_analyst_agent_executor" ->
         {"financial analyst agent", "financial_analyst_agent", "finance-agent", "finance agent"}
    [] s = "risk_analyst_agent_executor" ->
         {"risk analyst agent", "risk_analyst_agent", "risk-agent", "risk agent"}
    [] s = "market_analyst_agent_executor" ->
         {"market analyst agent", "market_analyst_agent", "market-agent", "market agent"}
    [] s = "compliance_analyst_agent_executor" ->
         {"compliance analyst agent", "compliance_analyst_agent", "compliance-agent", "compliance agent"}
\* addressed_in_steps of specialist s for the plan steps st
Addressed(s, st) == SelectSeq(st, LAMBDA a : Lower(a) \in Aliases(s))

\* the plans a planner run may yield: every short plan, and one that names
\* each of the four specialists
FullPlan == <<"Finance-Agent", "risk agent", "market_analyst_agent", "compliance-agent">>
Plans == UNION {[1..n -> AgentNames] : n \in 0..MaxPlanSteps} \cup {FullPlan}

\* the order in which add_fan_out_edges / add_fan_in_edges list the specialists
SpecialistOrder ==
  <<"financial_analyst_agent_executor", "risk_analyst_agent_executor",
    "market_analyst_agent_executor", "compliance_analyst_agent_executor">>

\* workflow events
Ev(k, x) == [ev |-> k, of |-> x]

\* the data of a published event, as pairs of a key and what it is set from;
\* the payload of an output or completed event is left out
FailureData ==
  {<<"error", "details.message">>, <<"error_type", "details.error_type">>,
   <<"traceback", "details.traceback">>, <<"extra", "details.extra">>}
StateData(state) == {<<"state", state>>}
ExceptData ==
  {<<"error", "str(e)">>, <<"error_type", "e.__class__.__name__">>,
   <<"traceback", "str(e.__traceback__)">>}
Keys(data) == {p[1] : p \in data}

\* _handle_event: the type, executor and data of the StreamEventMessage
\* published for a workflow event
EventTypeAnyStatusCompleted(e) ==
  CASE e.ev = "WorkflowStartedEvent" -> [type |-> "workflow_started", executor |-> "", data |-> {}]
    [] e.ev = "WorkflowFailedEvent" -> [type |-> "error", executor |-> e.of, data |-> FailureData]
    [] e.ev = "WorkflowStatusEvent" -> [type |-> "workflow_completed", executor |-> "", data |-> StateData(e.of)]
    [] e.ev = "ExecutorInvokedEvent" -> [type |-> "executor_invoked", executor |-> e.of, data |-> {}]
    [] e.ev = "ExecutorCompletedEvent" -> [type |-> "executor_completed", executor |-> e.of, data |-> {}]
    [] e.ev = "WorkflowOutputEvent" ->
         [type |-> IF e.of = Planner THEN "reasoning" ELSE "markdown", executor |-> e.of,
          data |-> {}]
    [] e.ev = "ExecutorFailedEvent" -> [type |-> "executor_failed", executor |-> e.of, data |-> FailureData]
    [] OTHER -> [type |-> "unknown_event", executor |-> "", data |-> {}]
EventType(e) ==
  CASE e.ev = "WorkflowStartedEvent" -> [type |-> "workflow_started", executor |-> "", data |-> {}]
    [] e.ev = "WorkflowFailedEvent" -> [type |-> "error", executor |-> e.of, data |-> FailureData]
    [] e.ev = "WorkflowStatusEvent" ->
         [type |-> IF e.of = "IDLE" THEN "workflow_completed" ELSE "workflow_status",
          executor |-> "", data |-> StateData(e.of)]
    [] e.ev = "ExecutorInvokedEvent" -> [type |-> "executor_invoked", executor |-> e.of, data |-> {}]
    [] e.ev = "ExecutorCompletedEvent" -> [type |-> "executor_completed", executor |-> e.of, data |-> {}]
    [] e.ev = "WorkflowOutputEvent" ->
         [type |-> IF e.of = Planner THEN "reasoning" ELSE "markdown", executor |-> e.of,
          data |-> {}]
    [] e.ev = "ExecutorFailedEvent" -> [type |-> "executor_failed", executor |-> e.of, data |-> FailureData]
    [] OTHER -> [type |-> "unknown_event", executor |-> "", data |-> {}]

\* the event published by execute_workflow's except branch
ErrorEvent == [type |-> "error", executor |-> "", data |-> ExceptData]

\* the keyword execute_workflow passes its argument under, and the name of
\* run_workflow_stream's one parameter
CallKeywords == {"input", "input_messages"}
RunWorkflowStreamParam == "input_messages"

brokerFrame == <<brokerVars, chanVars, msgVars, sessions, histVars, discAt>>
taskFrame == <<tb, arg, idx, res, handle, since>>

\* WhatIfMessage: the fields without a default, and the keywords
\* try_persist_conversation_message constructs it with
WhatIfMessageRequired == {"msg_id", "role"}
PersistKeywords == {"role", "author", "text", "content", "sequence_number"}

\* the stored conversation after try_persist_conversation_message(turn):
\* the turn is appended to the stored messages, or, when constructing the
\* WhatIfMessage or the store raises, the exception is caught and the
\* conversation is as before
PersistOutcomes(c, turn) ==
  IF WhatIfMessageRequired \subseteq PersistKeywords /\ c.exists
    THEN {[c EXCEPT !.messages = Append(@, turn)], c}
    ELSE {c}

\* _try_get_conversation_context: a missing conversation is created with no
\* messages and gives an empty history; a stored one with messages gives
\* them; a stored one without messages gives None
Created(c) == IF c.exists THEN c ELSE [exists |-> TRUE, messages |-> <<>>]
HasContext(c) == ~c.exists \/ c.messages # <<>>

\* execute_workflow up to the call of run_workflow_stream: the analysis is
\* looked up (a missing one raises), the conversation context is fetched
\* (None for a conversation without messages, and line 231 then raises
\* AttributeError), next_seq_num is set to the length of the history plus
\* one and the user's message is handed to try_persist_conversation_message
ExecStartNoUserTurn(w) ==
  /\ pc[w] = "off"
  /\ tb' = [tb EXCEPT ![w] = 1]
  /\ \E found \in BOOLEAN :
       IF ~found
         THEN /\ pc' = [pc EXCEPT ![w] = "wf_except"]
              /\ raised' = TRUE
              /\ UNCHANGED convVars
         ELSE IF ~HasContext(conv)
           THEN /\ pc' = [pc EXCEPT ![w] = "wf_except"]
                /\ raised' = TRUE
                /\ UNCHANGED convVars
           ELSE LET n == Len(conv.messages) + 1
                    turn == [role |-> "user", sequence_number |-> n]
                IN /\ pc' = [pc EXCEPT ![w] = "wf_call"]
                   /\ raised' = FALSE
                   /\ next_seq_num' = n
                   /\ conv' = Created(conv)
                   /\ turnLog' = turnLog
                   /\ UNCHANGED toPersist
  /\ UNCHANGED <<brokerFrame, arg, idx, res, handle, since, msgType, wfEvents,
                 wfState, steps, ex, left, sent, sumIn, runs>>
ExecStart(w) ==
  /\ pc[w] = "off"
  /\ tb' = [tb EXCEPT ![w] = 1]
  /\ \E found \in BOOLEAN :
       IF ~found
         THEN /\ pc' = [pc EXCEPT ![w] = "wf_except"]
              /\ raised' = TRUE
              /\ UNCHANGED convVars
         ELSE IF ~HasContext(conv)
           THEN /\ pc' = [pc EXCEPT ![w] = "wf_except"]
                /\ raised' = TRUE
                /\ UNCHANGED convVars
           ELSE LET n == Len(conv.messages) + 1
                    turn == [role |-> "user", sequence_number |-> n]
                IN /\ pc' = [pc EXCEPT ![w] = "wf_call"]
                   /\ raised' = FALSE
                   /\ next_seq_num' = n
                   /\ \E c \in PersistOutcomes(Created(conv), turn) :
                        /\ conv' = c
                        /\ turnLog' = Append(turnLog,
                              [role |-> "user", sequence_number |-> n,
                               stored |-> c # Created(conv),
                               published |-> Len(pubLog[1])])
                   /\ UNCHANGED toPersist
  /\ UNCHANGED <<brokerFrame, arg, idx, res, handle, since, msgType, wfEvents,
                 wfState, steps, ex, left, sent, sumIn, runs>>

\* self.workflow.run_workflow_stream(<keyword> = input): a keyword that is
\* not the parameter's name raises TypeError; otherwise the run starts and
\* the planner is invoked
WfCall(w) ==
  /\ pc[w] = "wf_call"
  /\ \E kw \in CallKeywords :
       IF kw = RunWorkflowStreamParam
         THEN /\ pc' = [pc EXCEPT ![w] = "w_run"]
              /\ wfState' = "running"
              /\ ex' = [ex EXCEPT ![Planner] = "invoked"]
              /\ wfEvents' = <<Ev("WorkflowStartedEvent", ""),
                               Ev("WorkflowStatusEvent", "IN_PROGRESS"),
                               Ev("ExecutorInvokedEvent", Planner)>>
              /\ UNCHANGED raised
         ELSE /\ pc' = [pc EXCEPT ![w] = "wf_except"]
              /\ raised' = TRUE
              /\ UNCHANGED <<wfState, ex, wfEvents>>
  /\ UNCHANGED <<brokerFrame, taskFrame, msgType, convVars, steps, left, sent, sumIn, runs>>

\* the workflow advances when its consumer waits for the next event
Stepping(w) ==
  pc[w] = "w_run" /\ wfState = "running" /\ wfEvents = <<>> /\ ~toPersist

\* an exception leaves an executor's handler: the run fails
Fail(e) ==
  /\ ex' = [ex EXCEPT ![e] = "failed"]
  /\ wfState' = "failed"
  /\ wfEvents' = <<Ev("ExecutorFailedEvent", e), Ev("WorkflowFailedEvent", e),
                   Ev("WorkflowStatusEvent", "FAILED")>>

\* PlanningAgentExecutor.handle: _agent.run raises, or yields a plan that is
\* output and sent on to the four specialists
PlannerRun(w) ==
  /\ Stepping(w)
  /\ ex[Planner] = "invoked"
  /\ runs' = [runs EXCEPT ![Planner] = @ + 1]
  /\ \/ /\ Fail(Planner)
        /\ UNCHANGED <<steps, left>>
     \/ \E st \in Plans :
          /\ steps' = st
          /\ left' = [s \in Specialists |-> Len(Addressed(s, st))]
          /\ ex' = [e \in Executors |->
                      IF e = Planner THEN "done"
                      ELSE IF e \in Specialists THEN "invoked" ELSE ex[e]]
          /\ wfEvents' = <<Ev("WorkflowOutputEvent", Planner),
                           Ev("ExecutorCompletedEvent", Planner)>>
                         \o [i \in 1..4 |-> Ev("ExecutorInvokedEvent", SpecialistOrder[i])]
          /\ UNCHANGED wfState
  /\ UNCHANGED <<brokerFrame, pc, taskFrame, msgType, convVars, sent, sumIn, raised>>

\* a specialist's handle executes its next addressed step: _agent.run raises,
\* or its text is output and an AnalystAgentOutput is sent
SpecialistStepSameStep(w, s) ==
  /\ Stepping(w)
  /\ ex[s] = "invoked"
  /\ left[s] > 0
  /\ runs' = [runs EXCEPT ![s] = @ + 1]
  /\ \/ /\ Fail(s)
        /\ UNCHANGED <<left, sent>>
     \/ /\ left' = [left EXCEPT ![s] = IF runs[s] = 0 THEN @ ELSE @ - 1]
        /\ sent' = [sent EXCEPT ![s] = @ + 1]
        /\ wfEvents' = <<Ev("WorkflowOutputEvent", s)>>
        /\ UNCHANGED <<ex, wfState>>
  /\ UNCHANGED <<brokerFrame, pc, taskFrame, msgType, convVars, steps, sumIn, raised>>
SpecialistStep(w, s) ==
  /\ Stepping(w)
  /\ ex[s] = "invoked"
  /\ left[s] > 0
  /\ runs' = [runs EXCEPT ![s] = @ + 1]
  /\ \/ /\ Fail(s)
        /\ UNCHANGED <<left, sent>>
     \/ /\ left' = [left EXCEPT ![s] = @ - 1]
        /\ sent' = [sent EXCEPT ![s] = @ + 1]
        /\ wfEvents' = <<Ev("WorkflowOutputEvent", s)>>
        /\ UNCHANGED <<ex, wfState>>
  /\ UNCHANGED <<brokerFrame, pc, taskFrame, msgType, convVars, steps, sumIn, raised>>

\* a specialist's handle returns: no addressed step is left
SpecialistDone(w, s) ==
  /\ Stepping(w)
  /\ ex[s] = "invoked"
  /\ left[s] = 0
  /\ ex' = [ex EXCEPT ![s] = "done"]
  /\ wfEvents' = <<Ev("ExecutorCompletedEvent", s)>>
  /\ UNCHANGED <<brokerFrame, pc, taskFrame, msgType, convVars, wfState, steps, left, sent,
                 sumIn, runs, raised>>

\* the outputs a specialist sent, tagged with its id
Outputs(s) == [k \in 1..sent[s] |-> s]
\* the fan-in edge group delivers once every source has sent a message
FanInReady == \A s \in Specialists : sent[s] > 0

\* add_fan_in_edges: the specialists' superstep is over and each of them has
\* sent at least one message; the summarizer is invoked with the list
FanIn(w) ==
  /\ Stepping(w)
  /\ \A s \in Specialists : ex[s] = "done"
  /\ ex[Summarizer] = "idle"
  /\ FanInReady
  /\ sumIn' = Outputs(SpecialistOrder[1]) \o Outputs(SpecialistOrder[2])
                \o Outputs(SpecialistOrder[3]) \o Outputs(SpecialistOrder[4])
  /\ ex' = [ex EXCEPT ![Summarizer] = "invoked"]
  /\ wfEvents' = <<Ev("ExecutorInvokedEvent", Summarizer)>>
  /\ UNCHANGED <<brokerFrame, pc, taskFrame, msgType, convVars, wfState, steps, left, sent,
                 runs, raised>>

\* AnalysisSummarizer.aggregate: _agent.run raises, or its text is output
SummarizerRun(w) ==
  /\ Stepping(w)
  /\ ex[Summarizer] = "invoked"
  /\ runs' = [runs EXCEPT ![Summarizer] = @ + 1]
  /\ \/ Fail(Summarizer)
     \/ /\ ex' = [ex EXCEPT ![Summarizer] = "done"]
        /\ wfEvents' = <<Ev("WorkflowOutputEvent", Summarizer),
                         Ev("ExecutorCompletedEvent", Summarizer)>>
        /\ UNCHANGED wfState
  /\ UNCHANGED <<brokerFrame, pc, taskFrame, msgType, convVars, steps, left, sent, sumIn, raised>>

\* no executor has a message to handle: the run goes idle
WfIdle(w) ==
  /\ Stepping(w)
  /\ \A e \in Executors : ex[e] # "invoked"
  /\ \A s \in Specialists : ex[s] = "done"
  /\ ex[Summarizer] = "done" \/ ~FanInReady
  /\ wfState' = "idle"
  /\ wfEvents' = <<Ev("WorkflowStatusEvent", "IDLE")>>
  /\ UNCHANGED <<brokerFrame, pc, taskFrame, msgType, convVars, steps, ex, left, sent, sumIn,
                 runs, raised>>

\* execute_workflow's loop body: _handle_event publishes the next event
HandleEventNewestFirst(w) ==
  /\ pc[w] = "w_run"
  /\ ~toPersist
  /\ wfEvents # <<>>
  /\ wfEvents' = SubSeq(wfEvents, 1, Len(wfEvents) - 1)
  /\ next_seq_num' = next_seq_num + 1
  /\ toPersist' = (wfEvents[Len(wfEvents)].ev = "WorkflowOutputEvent")
  /\ UNCHANGED <<conv, turnLog>>
  /\ nMsgs' = nMsgs + 1
  /\ msgType' = [msgType EXCEPT ![nMsgs + 1] = EventType(wfEvents[Len(wfEvents)])]
  /\ AddEventEnter(w, tb[w], nMsgs + 1)
HandleEvent(w) ==
  /\ pc[w] = "w_run"
  /\ ~toPersist
  /\ wfEvents # <<>>
  /\ wfEvents' = Tail(wfEvents)
  /\ next_seq_num' = next_seq_num + 1
  /\ toPersist' = (Head(wfEvents).ev = "WorkflowOutputEvent")
  /\ UNCHANGED <<conv, turnLog>>
  /\ nMsgs' = nMsgs + 1
  /\ msgType' = [msgType EXCEPT ![nMsgs + 1] = EventType(Head(wfEvents))]
  /\ AddEventEnter(w, tb[w], nMsgs + 1)

\* _handle_event after add_event, for a WorkflowOutputEvent: the assistant's
\* turn is handed to try_persist_conversation_message
PersistTurnEscapes(w) ==
  /\ pc[w] = "w_run"
  /\ toPersist
  /\ toPersist' = FALSE
  /\ LET turn == [role |-> "assistant", sequence_number |-> next_seq_num] IN
       \E c \in PersistOutcomes(conv, turn) :
         /\ conv' = c
         /\ turnLog' = Append(turnLog,
               [role |-> "assistant", sequence_number |-> next_seq_num,
                stored |-> c # conv, published |-> Len(pubLog[tb[w]])])
         /\ pc' = [pc EXCEPT ![w] = IF c = conv THEN "wf_except" ELSE "w_run"]
         /\ raised' = (raised \/ c = conv)
  /\ UNCHANGED <<brokerFrame, taskFrame, msgType, wfEvents, next_seq_num,
                 wfState, steps, ex, left, sent, sumIn, runs>>
PersistTurn(w) ==
  /\ pc[w] = "w_run"
  /\ toPersist
  /\ toPersist' = FALSE
  /\ LET turn == [role |-> "assistant", sequence_number |-> next_seq_num] IN
       \E c \in PersistOutcomes(conv, turn) :
         /\ conv' = c
         /\ turnLog' = Append(turnLog,
               [role |-> "assistant", sequence_number |-> next_seq_num,
                stored |-> c # conv, published |-> Len(pubLog[tb[w]])])
  /\ UNCHANGED <<brokerFrame, pc, taskFrame, msgType, wfEvents, next_seq_num,
                 runVars>>

\* the failed run's generator raises into execute_workflow
WfRaise(w) ==
  /\ pc[w] = "w_run"
  /\ wfState = "failed"
  /\ wfEvents = <<>>
  /\ ~toPersist
  /\ ~raised
  /\ pc' = [pc EXCEPT ![w] = "wf_except"]
  /\ raised' = TRUE
  /\ UNCHANGED <<brokerFrame, taskFrame, msgType, convVars, wfEvents, wfState, steps, ex,
                 left, sent, sumIn, runs>>

\* execute_workflow's except branch publishes an error event
ExecExcept(w) ==
  /\ pc[w] = "wf_except"
  /\ nMsgs' = nMsgs + 1
  /\ msgType' = [msgType EXCEPT ![nMsgs + 1] = ErrorEvent]
  /\ UNCHANGED <<wfEvents, convVars>>
  /\ AddEventEnter(w, tb[w], nMsgs + 1)

\* execute_workflow returns: the generator is exhausted, or the except
\* branch is done
ExecReturn(w) ==
  /\ pc[w] = "w_run"
  /\ wfEvents = <<>>
  /\ ~toPersist
  /\ wfState = "idle" \/ raised
  /\ pc' = [pc EXCEPT ![w] = "wf_end"]
  /\ UNCHANGED <<brokerFrame, taskFrame, wfVars>>

InitWorkflow ==
  /\ InitBase
  /\ InitRun
  /\ conv \in RunConversations
  /\ made = 1
  /\ max_events = [b \in Brokers |-> DefaultMaxEvents]
  /\ pc = [t \in AllTasks |-> IF t \in Tasks THEN "idle" ELSE "off"]

NextWorkflow ==
  \/ \E w \in Workers : ExecStart(w)
  \/ \E w \in Workers : WfCall(w)
  \/ \E w \in Workers : PlannerRun(w)
  \/ \E w \in Workers, s \in Specialists : SpecialistStep(w, s)
  \/ \E w \in Workers, s \in Specialists : SpecialistDone(w, s)
  \/ \E w \in Workers : FanIn(w)
  \/ \E w \in Workers : SummarizerRun(w)
  \/ \E w \in Workers : WfIdle(w)
  \/ \E w \in Workers : HandleEvent(w)
  \/ \E w \in Workers : PersistTurn(w)
  \/ \E w \in Workers : AddEventExit(w)
  \/ \E w \in Workers : WfRaise(w)
  \/ \E w \in Workers : ExecExcept(w)
  \/ \E w \in Workers : ExecReturn(w)

SpecWorkflow == InitWorkflow /\ [][NextWorkflow]_vars

(* ---------------------- properties of the workflow --------------------- *)
\* the type/executor of the events in the broker's history, in publish order
Published1 == [k \in DOMAIN pubLog[1] |-> msgType[pubLog[1][k].m]]
CountType(ty) == Cardinality({k \in DOMAIN Published1 : Published1[k].type = ty})
RunOver == pc["w1"] = "wf_end"
Failed(S) == {s \in S : ex[s] = "failed"}

\* C18: when a run in which exactly one of the four specialists failed (and
\* neither the planner nor the summarizer did) is over, it has completed:
\* the summarizer ran on the outputs of the three other specialists, and the
\* broker's history holds one executor_failed and one workflow_completed.
C18_OneSpecialistFails ==
  (/\ RunOver
   /\ Cardinality(Failed(Specialists)) = 1
   /\ ex[Planner] = "done"
   /\ ex[Summarizer] # "failed") =>
     /\ wfState = "idle"
     /\ ex[Summarizer] = "done"
     /\ Range(sumIn) = Specialists \ Failed(Specialists)
     /\ CountType("executor_failed") = 1
     /\ CountType("workflow_completed") = 1

\* C19: when a run whose plan has no step for any specialist is over, no
\* specialist has called its agent, the run has completed, and the
\* summarizer was invoked, once, with an empty list.
C19_EmptyPlanCompletes ==
  (/\ RunOver
   /\ ex[Planner] = "done"
   /\ \A s \in Specialists : Addressed(s, steps) = <<>>) =>
     /\ \A s \in Specialists : runs[s] = 0
     /\ wfState = "idle"
     /\ CountType("workflow_completed") = 1
     /\ ex[Summarizer] = "done"
     /\ runs[Summarizer] = 1
     /\ sumIn = <<>>

\* C20: once the planner's invocation has raised, the run is failed and stays
\* so: no specialist and no summarizer is invoked or calls its agent, no
\* workflow_completed is ever published, and when the run is over the
\* history holds the planner's failure (executor_failed and error events
\* naming the planner) and the error event of execute_workflow.
C20_PlannerFailureState ==
  ex[Planner] = "failed" =>
    /\ wfState = "failed"
    /\ \A e \in Executors \ {Planner} : ex[e] = "idle" /\ runs[e] = 0
    /\ CountType("workflow_completed") = 0
    /\ RunOver =>
         /\ \E k \in DOMAIN Published1 :
              Published1[k] = [type |-> "executor_failed", executor |-> Planner,
                                data |-> FailureData]
         /\ \E k \in DOMAIN Published1 :
              Published1[k] = [type |-> "error", executor |-> Planner, data |-> FailureData]
         /\ Published1[Len(Published1)] = ErrorEvent
         /\ raised

C20_PlannerFailureStays ==
  (ex[Planner] = "failed") => (ex'[Planner] = "failed" /\ ex' = ex /\ runs' = runs)

C20_PlannerFailure ==
  /\ []C20_PlannerFailureState
  /\ [][C20_PlannerFailureStays]_vars

\* the run is over after the planner's invocation raised
C20_Witness ==
  /\ RunOver
  /\ ex[Planner] = "failed"
  /\ runs[Planner] = 1
  /\ Len(Published1) = 7

(* -------------------- the specialists' step counts --------------------- *)
\* the output events of specialist s in the broker's history
OutputEvents(s) ==
  {k \in DOMAIN Published1 :
     Published1[k] = [type |-> "markdown", executor |-> s, data |-> {}]}

\* C21: once the planner has sent its plan, no specialist calls its agent
\* more often than the plan has steps assigned to it, and its remaining
\* steps are the assigned ones less those done; a specialist whose handler
\* has returned has called its agent once and sent one output per assigned
\* step (none at all, and no entry in the summarizer's input, when no step
\* is assigned to it); when a run that did not fail is over, the history
\* holds as many output events tagged with the specialist as it has steps.
C21_StepCountsState ==
  ex[Planner] = "done" =>
    \A s \in Specialists :
      LET n == Len(Addressed(s, steps)) IN
        /\ runs[s] <= n
        /\ sent[s] <= runs[s]
        /\ left[s] = n - sent[s]
        /\ Cardinality(OutputEvents(s)) <= sent[s]
        /\ ex[s] = "done" => runs[s] = n /\ sent[s] = n
        /\ n = 0 => runs[s] = 0 /\ sent[s] = 0 /\ s \notin Range(sumIn)
        /\ (RunOver /\ wfState = "idle") => Cardinality(OutputEvents(s)) = n

\* C21: a specialist's steps are executed one at a time, in the order of the
\* plan: each call of its agent is for the first assigned step not yet done.
C21_StepsInOrder ==
  \A s \in Specialists :
    runs'[s] # runs[s] =>
      /\ runs'[s] = runs[s] + 1
      /\ runs[s] = Len(Addressed(s, steps)) - left[s]
      /\ left'[s] = left[s] - 1 \/ ex'[s] = "failed"

C22_AggregatorJoin ==
  /\ runs[Summarizer] <= 1
  /\ ex[Summarizer] # "idle" =>
       \A s \in Specialists : ex[s] \in {"done", "failed"}
  /\ Range(sumIn) \cap Failed(Specialists) = {}
  /\ (RunOver /\ ex[Planner] = "done" /\ Failed(Specialists) # {}) =>
       ex[Summarizer] # "idle"


(* ------------------ resolving a step to a specialist ------------------- *)
\* str.lower() on one character
LowerCharIdentity(c) == c
LowerChar(c) ==
  CASE c = "A" -> "a" [] c = "B" -> "b" [] c = "C" -> "c" [] c = "D" -> "d"
    [] c = "E" -> "e" [] c = "F" -> "f" [] c = "G" -> "g" [] c = "H" -> "h"
    [] c = "I" -> "i" [] c = "J" -> "j" [] c = "K" -> "k" [] c = "L" -> "l"
    [] c = "M" -> "m" [] c = "N" -> "n" [] c = "O" -> "o" [] c = "P" -> "p"
    [] c = "Q" -> "q" [] c = "R" -> "r" [] c = "S" -> "s" [] c = "T" -> "t"
    [] c = "U" -> "u" [] c = "V" -> "v" [] c = "W" -> "w" [] c = "X" -> "x"
    [] c = "Y" -> "y" [] c = "Z" -> "z"
    [] OTHER -> c
\* the upper-case form of one character
UpperChar(c) ==
  CASE c = "a" -> "A" [] c = "b" -> "B" [] c = "c" -> "C" [] c = "d" -> "D"
    [] c = "e" -> "E" [] c = "f" -> "F" [] c = "g" -> "G" [] c = "h" -> "H"
    [] c = "i" -> "I" [] c = "j" -> "J" [] c = "k" -> "K" [] c = "l" -> "L"
    [] c = "m" -> "M" [] c = "n" -> "N" [] c = "o" -> "O" [] c = "p" -> "P"
    [] c = "q" -> "Q" [] c = "r" -> "R" [] c = "s" -> "S" [] c = "t" -> "T"
    [] c = "u" -> "U" [] c = "v" -> "V" [] c = "w" -> "W" [] c = "x" -> "X"
    [] c = "y" -> "Y" [] c = "z" -> "Z"
    [] OTHER -> c
\* the string spelled by a sequence of characters
RECURSIVE Join(_)
Join(cs) == IF cs = <<>> THEN "" ELSE Head(cs) \o Join(Tail(cs))
\* str.lower() on a string given by its characters
StrLower(cs) == Join([i \in DOMAIN cs |-> LowerChar(cs[i])])

\* the accepted names of the four handlers, character by character
AliasSpellings ==
  {<<"f", "i", "n", "a", "n", "c", "i", "a", "l", " ", "a", "n", "a", "l", "y", "s", "t", " ", "a", "g", "e", "n", "t">>,
   <<"f", "i", "n", "a", "n", "c", "i", "a", "l", "_", "a", "n", "a", "l", "y", "s", "t", "_", "a", "g", "e", "n", "t">>,
   <<"f", "i", "n", "a", "n", "c", "e", "-", "a", "g", "e", "n", "t">>,
   <<"f", "i", "n", "a", "n", "c", "e", " ", "a", "g", "e", "n", "t">>,
   <<"r", "i", "s", "k", " ", "a", "n", "a", "l", "y", "s", "t", " ", "a", "g", "e", "n", "t">>,
   <<"r", "i", "s", "k", "_", "a", "n", "a", "l", "y", "s", "t", "_", "a", "g", "e", "n", "t">>,
   <<"r", "i", "s", "k", "-", "a", "g", "e", "n", "t">>,
   <<"r", "i", "s", "k", " ", "a", "g", "e", "n", "t">>,
   <<"m", "a", "r", "k", "e", "t", " ", "a", "n", "a", "l", "y", "s", "t", " ", "a", "g", "e", "n", "t">>,
   <<"m", "a", "r", "k", "e", "t", "_", "a", "n", "a", "l", "y", "s", "t", "_", "a", "g", "e", "n", "t">>,
   <<"m", "a", "r", "k", "e", "t", "-", "a", "g", "e", "n", "t">>,
   <<"m", "a", "r", "k", "e", "t", " ", "a", "g", "e", "n", "t">>,
   <<"c", "o", "m", "p", "l", "i", "a", "n", "c", "e", " ", "a", "n", "a", "l", "y", "s", "t", " ", "a", "g", "e", "n", "t">>,
   <<"c", "o", "m", "p", "l", "i", "a", "n", "c", "e", "_", "a", "n", "a", "l", "y", "s", "t", "_", "a", "g", "e", "n", "t">>,
   <<"c", "o", "m", "p", "l", "i", "a", "n", "c", "e", "-", "a", "g", "e", "n", "t">>,
   <<"c", "o", "m", "p", "l", "i", "a", "n", "c", "e", " ", "a", "g", "e", "n", "t">>}

\* the spelling of the names the plans of the model use
Spelling(a) ==
  CASE a = "Finance-Agent" ->
         <<"F", "i", "n", "a", "n", "c", "e", "-", "A", "g", "e", "n", "t">>
    [] a = "risk agent" ->
         <<"r", "i", "s", "k", " ", "a", "g", "e", "n", "t">>
    [] a = "market_analyst_agent" ->
         <<"m", "a", "r", "k", "e", "t", "_", "a", "n", "a", "l", "y", "s", "t", "_", "a", "g", "e", "n", "t">>
    [] a = "compliance-agent" ->
         <<"c", "o", "m", "p", "l", "i", "a", "n", "c", "e", "-", "a", "g", "e", "n", "t">>
    [] a = "legal_agent" ->
         <<"l", "e", "g", "a", "l", "_", "a", "g", "e", "n", "t">>

\* assigned_agent values that are no accepted name of any handler
OtherSpellings ==
  {<<"l", "e", "g", "a", "l", "_", "a", "g", "e", "n", "t">>,
   <<"f", "i", "n", "a", "n", "c", "e", "_", "a", "g", "e", "n", "t">>,
   <<"F", "i", "n", "a", "n", "c", "i", "a", "l", " ", "A", "n", "a", "l", "y", "s", "t">>,
   <<"r", "i", "s", "k">>,
   <<"M", "a", "r", "k", "e", "t", " ", " ", "A", "g", "e", "n", "t">>,
   <<"c", "o", "m", "p", "l", "i", "a", "n", "c", "e", ".", "a", "g", "e", "n", "t">>,
   <<>>}

\* the specialists whose handler accepts the assigned_agent value cs
Resolve(cs) == {s \in Specialists : StrLower(cs) \in Aliases(s)}

\* the letter casings of a name that are tried: every casing of its first
\* MaxCasedChars characters, with the rest as written or in upper case
UpperAt(cs, U) == [i \in DOMAIN cs |-> IF i \in U THEN UpperChar(cs[i]) ELSE cs[i]]
Casings(cs) ==
  LET head == {i \in DOMAIN cs : i <= MaxCasedChars}
      rest == DOMAIN cs \ head
  IN {UpperAt(cs, U) : U \in SUBSET head} \cup {UpperAt(cs, U \cup rest) : U \in SUBSET head}

\* a plan of one step whose assigned_agent, given by its characters, is an
\* accepted name or another value in some casing, or a name of AgentNames;
\* the planner has sent the plan to the four specialists
InitResolve ==
  /\ InitBase
  /\ conv = NoConversation
  /\ made = 1
  /\ max_events = [b \in Brokers |-> DefaultMaxEvents]
  /\ pc = [t \in AllTasks |-> IF t \in Tasks THEN "idle" ELSE "w_run"]
  /\ \E b \in AliasSpellings \cup OtherSpellings \cup {Spelling(a) : a \in AgentNames} :
       \E v \in Casings(b) :
         /\ steps = <<v>>
         /\ wfState = "running"
         /\ ex = [e \in Executors |->
                    IF e = Planner THEN "done"
                    ELSE IF e \in Specialists THEN "invoked" ELSE "idle"]
         /\ left = [s \in Specialists |-> 0]
         /\ sent = [s \in Specialists |-> 0]
         /\ sumIn = <<>>
         /\ runs = [e \in Executors |-> IF e = Planner THEN 1 ELSE 0]
         /\ raised = FALSE

\* the head of a specialist's handle: addressed_in_steps is collected from
\* the steps whose assigned_agent.lower() is one of its accepted names
HandleSelect(s) ==
  /\ ex[s] = "invoked"
  /\ left[s] = 0
  /\ sent[s] = 0
  /\ left' = [left EXCEPT ![s] = Len(SelectSeq(steps, LAMBDA cs : s \in Resolve(cs)))]
  /\ ex' = [ex EXCEPT ![s] = "done"]
  /\ UNCHANGED <<brokerFrame, pc, taskFrame, msgType, convVars, wfEvents, wfState, steps,
                 sent, sumIn, runs, raised>>

NextResolve == \E s \in Specialists : HandleSelect(s)

SpecResolve == InitResolve /\ [][NextResolve]_vars

(* ------------------------ properties of resolving ---------------------- *)
\* v is the name b in some letter casing
IsCasingOf(v, b) ==
  /\ Len(v) = Len(b)
  /\ \A i \in DOMAIN b : v[i] \in {b[i], UpperChar(b[i])}
\* the specialists that list the name b
Owners(b) == {s \in Specialists : Join(b) \in Aliases(s)}
\* the specialists that list a name of which v is a casing
Expected(v) == UNION {Owners(b) : b \in {a \in AliasSpellings : IsCasingOf(v, a)}}
\* the specialists that have found the step of the plan addressed to them
Selected == {s \in Specialists : ex[s] = "done" /\ left[s] > 0}

\* C23: whatever the letter casing of a step's assigned_agent, the handlers
\* that take the step as theirs are those that list the name: exactly one
\* when the value is an accepted name in some casing ("Finance-Agent" goes
\* to the handler that also takes "financial_analyst_agent"), none when it
\* is no accepted name, never two; and the names of the workflow model's
\* plans are lowered and matched in the same way.
C23_Resolution ==
  /\ Selected \subseteq Expected(steps[1])
  /\ Cardinality(Selected) <= 1
  /\ (\A s \in Specialists : ex[s] = "done") =>
       /\ Selected = Expected(steps[1])
       /\ (\E b \in AliasSpellings : IsCasingOf(steps[1], b)) => Cardinality(Selected) = 1
       /\ (\E b \in OtherSpellings : IsCasingOf(steps[1], b)) => Selected = {}
       /\ steps[1] = Spelling("Finance-Agent") =>
            Selected = Owners(<<"f", "i", "n", "a", "n", "c", "i", "a", "l", "_", "a",
                                "n", "a", "l", "y", "s", "t", "_", "a", "g", "e", "n", "t">>)
  /\ \A s \in Specialists : Aliases(s) \subseteq {Join(b) : b \in AliasSpellings}
  /\ \A a \in AgentNames :
       /\ Join(Spelling(a)) = a
       /\ Lower(a) = StrLower(Spelling(a))
       /\ \A s \in Specialists : (Addressed(s, <<a>>) # <<>>) <=> (s \in Resolve(Spelling(a)))

\* the four handlers have looked at a plan whose step is assigned to
\* "Finance-Agent": the financial specialist alone has taken it
C23_Witness ==
  /\ steps = <<Spelling("Finance-Agent")>>
  /\ \A s \in Specialists : ex[s] = "done"
  /\ Selected = {"financial_analyst_agent_executor"}


(* --------------------------- cancellation ------------------------------ *)
\* the broker the run publishes to has been torn down: a disconnecting
\* client's clean_up has removed it from the session registry
TornDown(w) == tb[w] # 0 /\ \A sid \in SessionIds : sessions[sid] # tb[w]

\* C24: once the broker of a run has been torn down by the disconnect of its
\* client, the run publishes no further event: no add_event of the run
\* assigns a sequence number after that.
C24_CancelledRunStops ==
  [][\A w \in Workers : TornDown(w) => pubLog'[tb[w]] = pubLog[tb[w]]]_vars


C29_TimestampAtPublish ==
  \A b \in Brokers :
    /\ \A k \in DOMAIN pubLog[b] :
         /\ msgTime[pubLog[b][k].m] > ImportTime
         /\ msgTime[pubLog[b][k].m] <= Now
    /\ \A j, k \in DOMAIN pubLog[b] :
         j < k => msgTime[pubLog[b][j].m] <= msgTime[pubLog[b][k].m]


(* ------------------------ two runs, one session ------------------------ *)
\* start_analysis is called twice with the same client_id; each background
\* workflow publishes its events, while one client streams the session
TwoRunsPublish(w) == WorkerPublish(w, MaxTwoRunMsgs)

NextTwoRuns ==
  \/ \E w \in Runs : WorkerStart(w)
  \/ \E w \in Runs : TwoRunsPublish(w)
  \/ \E w \in Runs : AddEventPut(w)
  \/ \E w \in Runs : AddEventExit(w)
  \/ \E c \in Reconnecting : ReplayConnect(c)
  \/ \E c \in Reconnecting : ClientHistory(c)
  \/ \E c \in Reconnecting : GetEventsExit(c)
  \/ \E c \in Reconnecting : ClientYield(c)
  \/ \E c \in Reconnecting : ClientRegister(c)
  \/ \E c \in Reconnecting : RegisterExit(c)
  \/ \E c \in Reconnecting : ClientLive(c)
  \/ \E c \in Reconnecting : ClientDisconnect(c)
  \/ \E c \in Reconnecting : UnregisterExit(c)
  \/ \E c \in Reconnecting : ClientDisconnectEarly(c)
  \/ \E c \in Reconnecting : ClientClose(c)
  \/ \E c \in Reconnecting : ClientClear(c)
  \/ \E c \in Reconnecting : ClearExit(c)
  \/ \E c \in Reconnecting : ClientDel(c)

SpecTwoRuns == InitStream /\ [][NextTwoRuns]_vars

\* the runs that have been handed broker b and publish to it
PublishingRuns(b) == {w \in Runs : tb[w] = b /\ pc[w] \in {"w_run", "add_put"}}

\* C30: no broker has more than one publishing run.
C30_OnePublishingRun ==
  \A b \in Brokers : Cardinality(PublishingRuns(b)) <= 1


(* ------------------ successive runs on one conversation ---------------- *)
\* the events of one workflow run, taken as a whole: a run that completes
\* with the planner's and one specialist's output, and a run that fails
CompletedStream ==
  <<Ev("WorkflowStartedEvent", ""), Ev("WorkflowOutputEvent", Planner),
    Ev("WorkflowOutputEvent", SpecialistOrder[1]), Ev("WorkflowStatusEvent", "IDLE")>>
FailedStream ==
  <<Ev("WorkflowStartedEvent", ""), Ev("WorkflowOutputEvent", Planner),
    Ev("ExecutorFailedEvent", SpecialistOrder[1]),
    Ev("WorkflowFailedEvent", SpecialistOrder[1]), Ev("WorkflowStatusEvent", "FAILED")>>

\* self.workflow.run_workflow_stream(<keyword> = input), with the run's
\* events taken as a whole
WfCallStream(w) ==
  /\ pc[w] = "wf_call"
  /\ \E kw \in CallKeywords :
       IF kw = RunWorkflowStreamParam
         THEN /\ pc' = [pc EXCEPT ![w] = "w_run"]
              /\ \/ wfEvents' = CompletedStream /\ wfState' = "idle"
                 \/ wfEvents' = FailedStream /\ wfState' = "failed"
              /\ UNCHANGED raised
         ELSE /\ pc' = [pc EXCEPT ![w] = "wf_except"]
              /\ raised' = TRUE
              /\ UNCHANGED <<wfState, wfEvents>>
  /\ UNCHANGED <<brokerFrame, taskFrame, msgType, convVars, steps, ex, left, sent,
                 sumIn, runs>>

\* execute_workflow is called again for the same conversation
RunAgain(w) ==
  /\ pc[w] = "wf_end"
  /\ nMsgs < MaxConvEvents
  /\ pc' = [pc EXCEPT ![w] = "off"]
  /\ wfState' = "off"
  /\ raised' = FALSE
  /\ next_seq_num' = 0
  /\ UNCHANGED <<brokerFrame, taskFrame, msgType, wfEvents, conv, toPersist,
                 turnLog, steps, ex, left, sent, sumIn, runs>>

InitConversation ==
  /\ InitBase
  /\ InitRun
  /\ conv \in {NoConversation} \cup {Stored(k) : k \in 0..MaxTurns}
  /\ made = 1
  /\ max_events = [b \in Brokers |-> DefaultMaxEvents]
  /\ pc = [t \in AllTasks |-> IF t \in Tasks THEN "idle" ELSE "off"]

NextConversation ==
  \/ \E w \in Workers : ExecStart(w)
  \/ \E w \in Workers : WfCallStream(w)
  \/ \E w \in Workers : HandleEvent(w)
  \/ \E w \in Workers : AddEventExit(w)
  \/ \E w \in Workers : PersistTurn(w)
  \/ \E w \in Workers : WfRaise(w)
  \/ \E w \in Workers : ExecExcept(w)
  \/ \E w \in Workers : ExecReturn(w)
  \/ \E w \in Workers : RunAgain(w)

SpecConversation == InitConversation /\ [][NextConversation]_vars

(* ------------------- properties of the conversation -------------------- *)
\* sorted(conversation.messages, key = sequence_number)
RECURSIVE Insert(_, _)
Insert(l, x) ==
  IF l = <<>> THEN <<x>>
  ELSE IF x.sequence_number < Head(l).sequence_number THEN <<x>> \o l
  ELSE <<Head(l)>> \o Insert(Tail(l), x)
RECURSIVE Sorted(_)
Sorted(l) == IF l = <<>> THEN <<>> ELSE Insert(Sorted(SubSeq(l, 1, Len(l) - 1)), l[Len(l)])
\* the history _try_get_conversation_context loads
History(c) == Sorted(c.messages)

\* C25: when execute_workflow has dealt with the user's turn and is about to
\* run the workflow, the turn's number is one more than the number of turns
\* stored before, and the stored conversation holds that many turns, the
\* last of them the user's turn, sorted by sequence_number.
C25_NextTurnNumber ==
  pc["w1"] = "wf_call" =>
    /\ next_seq_num >= 1
    /\ conv.exists
    /\ Len(History(conv)) = next_seq_num
    /\ History(conv)[next_seq_num] = [role |-> "user", sequence_number |-> next_seq_num]
    /\ \A i, j \in DOMAIN History(conv) :
         i < j => History(conv)[i].sequence_number <= History(conv)[j].sequence_number

LostTurns == {k \in DOMAIN turnLog : ~turnLog[k].stored}
OutputTypes == {"reasoning", "markdown"}

\* C27: every assistant turn is handed to the store only after its output
\* event has been published, as the latest event of the broker; and when a
\* run whose workflow completed is over although persists failed, no
\* exception has left try_persist_conversation_message: nothing was raised
\* in execute_workflow, no error event was published and the run handled
\* its events up to workflow_completed.
C27_BestEffortState ==
  /\ \A k \in DOMAIN turnLog :
       turnLog[k].role = "assistant" =>
         /\ turnLog[k].published \in DOMAIN Published1
         /\ Published1[turnLog[k].published].type \in OutputTypes
         /\ msgSeq[pubLog[1][turnLog[k].published].m] # NoSeq
  /\ (RunOver /\ wfState = "idle" /\ LostTurns # {}) =>
       /\ ~raised
       /\ CountType("error") = 0
       /\ CountType("workflow_completed") = 1
       /\ Cardinality({k \in DOMAIN Published1 : Published1[k].type \in OutputTypes})
            = Cardinality({k \in DOMAIN turnLog : turnLog[k].role = "assistant"})

\* C27: a call of try_persist_conversation_message that stores nothing
\* returns normally: the run stays where it was, with the events it still
\* has to handle, and nothing is raised or published by the call.
C27_BestEffortStep ==
  (Len(turnLog') > Len(turnLog) /\ ~turnLog'[Len(turnLog')].stored) =>
    /\ raised' = raised \/ turnLog'[Len(turnLog')].role = "user"
    /\ ~raised'
    /\ pc'["w1"] \in {"wf_call", "w_run"}
    /\ wfEvents' = wfEvents
    /\ pubLog' = pubLog

C27_BestEffort ==
  /\ []C27_BestEffortState
  /\ [][C27_BestEffortStep]_vars

\* a run is over whose workflow completed with four specialists' outputs
\* and a summary, none of whose turns was stored
C27_Witness ==
  /\ RunOver
  /\ wfState = "idle"
  /\ ex[Summarizer] = "done"
  /\ Cardinality(LostTurns) = 7
  /\ \E k \in LostTurns : turnLog[k].role = "assistant" /\ turnLog[k].published < Len(Published1)

(* ===================== the session registry (C31) ===================== *)
MaxRegistryMsgs == 2
MaxRegistryConnects == 2
\* two session ids in use; every request carries the session id of its URL
RegistrySessions == {"s1", "s2"}
SessionOf(t) == IF t \in {"w1", "c1"} THEN "s1" ELSE "s2"

InitRegistry ==
  /\ InitState
  /\ InitRun
  /\ conv = NoConversation
  /\ sessions = [s \in RegistrySessions |-> 0]
  /\ made = 0
  /\ max_events = [b \in Brokers |-> DefaultMaxEvents]
  /\ pc = [t \in AllTasks |-> IF t \in Tasks THEN "idle" ELSE "off"]

\* start_analysis(analysis_id): the run is handed the broker of its session
RegistryStart(w) ==
  /\ pc[w] = "off"
  /\ conn[w] = 0
  /\ GetSessionQueue(SessionOf(w))
  /\ tb' = [tb EXCEPT ![w] = SessionQueue(SessionOf(w))]
  /\ pc' = [pc EXCEPT ![w] = "w_run"]
  /\ conn' = [conn EXCEPT ![w] = 1]
  /\ UNCHANGED <<max_events, eventQueue, queue, sequence_number, listeners, lock, chanVars,
                 msgVars, arg, idx, res, handle, since, pubLog, lastReset,
                 regAt, hb, recv, out, keyError, pubAt, discAt, wfVars>>

RegistryPublish(w) == WorkerPublish(w, MaxRegistryMsgs)

\* stream_analysis_events(analysis_id) up to the StreamingResponse
RegistryConnect(c) ==
  /\ pc[c] = "off"
  /\ conn[c] < MaxRegistryConnects
  /\ GetSessionQueue(SessionOf(c))
  /\ tb' = [tb EXCEPT ![c] = SessionQueue(SessionOf(c))]
  /\ pc' = [pc EXCEPT ![c] = "c_hist"]
  /\ out' = [out EXCEPT ![c] = <<>>]
  /\ conn' = [conn EXCEPT ![c] = @ + 1]
  /\ UNCHANGED <<max_events, eventQueue, queue, sequence_number, listeners, lock, chanVars,
                 msgVars, arg, idx, res, handle, since, pubLog, lastReset,
                 regAt, hb, recv, keyError, pubAt, discAt, wfVars>>

\* close_sse_event_queue_for_session(session_id): the session has a broker,
\* whose clear_event_queue is awaited
RegistryClose(c) ==
  /\ pc[c] = "c_close"
  /\ sessions[SessionOf(c)] # 0
  /\ tb' = [tb EXCEPT ![c] = sessions[SessionOf(c)]]
  /\ pc' = [pc EXCEPT ![c] = "c_clear"]
  /\ UNCHANGED <<brokerVars, chanVars, msgVars, sessions, arg, idx, res, handle,
                 since, histVars, discAt, wfVars>>

\* close_sse_event_queue_for_session(session_id): del of the session's entry
RegistryDel(c) ==
  /\ pc[c] = "c_del"
  /\ sessions' = [sessions EXCEPT ![SessionOf(c)] = 0]
  /\ keyError' = (keyError \/ sessions[SessionOf(c)] = 0)
  /\ Finished(c)
  /\ UNCHANGED <<brokerVars, chanVars, msgVars, arg, idx, res, pubLog, lastReset,
                 regAt, hb, recv, out, conn, pubAt, discAt, wfVars>>

NextRegistry ==
  \/ \E w \in Runs : RegistryStart(w)
  \/ \E w \in Runs : RegistryPublish(w)
  \/ \E w \in Runs : AddEventPut(w)
  \/ \E w \in Runs : AddEventExit(w)
  \/ \E c \in Clients : RegistryConnect(c)
  \/ \E c \in Clients : ClientHistory(c)
  \/ \E c \in Clients : GetEventsExit(c)
  \/ \E c \in Clients : ClientYield(c)
  \/ \E c \in Clients : ClientRegister(c)
  \/ \E c \in Clients : RegisterExit(c)
  \/ \E c \in Clients : ClientLive(c)
  \/ \E c \in Clients : ClientDisconnect(c)
  \/ \E c \in Clients : UnregisterExit(c)
  \/ \E c \in Clients : ClientDisconnectEarly(c)
  \/ \E c \in Clients : RegistryClose(c)
  \/ \E c \in Clients : ClientClear(c)
  \/ \E c \in Clients : ClearExit(c)
  \/ \E c \in Clients : RegistryDel(c)

SpecRegistry == InitRegistry /\ [][NextRegistry]_vars

\* the request of task t has just obtained its session's broker
Got(t) == pc[t] = "off" /\ pc'[t] \in {"w_run", "c_hist"}
\* the visible state of a broker
BrokerState(b) == <<queue[b], sequence_number[b], listeners[b]>>
\* the task that takes the step
Acts(t) == pc'[t] # pc[t]

\* C31, the map: a get returns the broker the session already has, and creates
\* a broker that no one has used, empty and with counter 0, when the session
\* has none; the session's broker changes only by that creation or by removal
C31_GetOrCreate ==
  [][/\ \A t \in Runs \cup Clients :
          Got(t) =>
            /\ tb'[t] = sessions'[SessionOf(t)]
            /\ tb'[t] # 0
            /\ sessions[SessionOf(t)] # 0 => tb'[t] = sessions[SessionOf(t)]
            /\ sessions[SessionOf(t)] = 0 =>
                 /\ \A s \in RegistrySessions : sessions[s] # tb'[t]
                 /\ \A u \in AllTasks : tb[u] # tb'[t]
                 /\ BrokerState(tb'[t]) = <<<<>>, 0, <<>>>>
                 /\ pubLog[tb'[t]] = <<>>
     /\ \A s \in RegistrySessions :
          sessions'[s] # sessions[s] => sessions[s] = 0 \/ sessions'[s] = 0]_vars

\* C31, distinct sessions: two session ids never share a broker
C31_DistinctBrokers ==
  \A s1, s2 \in RegistrySessions :
    s1 # s2 /\ sessions[s1] # 0 => sessions[s1] # sessions[s2]

\* C31, the frame: a step of a request of one session leaves the buffer, the
\* counter and the listeners of every other session's broker unchanged
C31_OtherSessionsUnchanged ==
  [][\A t \in Runs \cup Clients : \A s \in RegistrySessions :
       Acts(t) /\ s # SessionOf(t) /\ sessions[s] # 0
         => BrokerState(sessions[s])' = BrokerState(sessions[s])]_vars

\* C31: the session registry is a get-or-create map with one broker per
\* session id, every get between creation and removal returns that broker,
\* the sessions' brokers are isolated from each other, and the get after a
\* removal creates a fresh, empty broker
C31_Registry ==
  /\ C31_GetOrCreate
  /\ []C31_DistinctBrokers
  /\ C31_OtherSessionsUnchanged

\* both sessions have a broker with events, the first session's broker is
\* the one created after a removal, and a second get of the session has
\* returned it to the run and to the stream
C31_Witness ==
  /\ sessions["s1"] # 0 /\ sessions["s2"] # 0
  /\ tb["w1"] = sessions["s1"] /\ tb["c1"] = sessions["s1"]
  /\ conn["c1"] = 2
  /\ queue[sessions["s1"]] # <<>> /\ queue[sessions["s2"]] # <<>>

(* ------------------------ failure events (C32) ------------------------- *)
\* the kinds failures are published under, and the fields of their data
FailureKinds == {"workflow_failed", "executor_failed", "error"}
FailureFields == {"error", "error_type", "extra"}

\* C32: every event published under one of the kinds workflow_failed,
\* executor_failed or error carries an error message, an error type and an
\* extra-context field, whichever path produced it, and a run in which an
\* exception was raised ends with an event of one of those kinds.
C32_FailureEvents ==
  /\ \A k \in DOMAIN Published1 :
       Published1[k].type \in FailureKinds
         => FailureFields \subseteq Keys(Published1[k].data)
  /\ (RunOver /\ raised) => Published1[Len(Published1)].type \in FailureKinds

(* ------------------- the order of publication (C33) -------------------- *)
\* the user's turn of the run in progress, and what the run has published
LastUserTurn ==
  CHOOSE k \in DOMAIN turnLog :
    /\ turnLog[k].role = "user"
    /\ \A j \in DOMAIN turnLog : turnLog[j].role = "user" => j <= k
RunPublished == SubSeq(pubLog[1], turnLog[LastUserTurn].published + 1, Len(pubLog[1]))
\* the events the workflow of the run in progress yields
Yielded == IF wfState = "idle" THEN CompletedStream ELSE FailedStream
\* the run is in the loop over the workflow's events
InLoop ==
  wfState \in {"idle", "failed"} /\ pc["w1"] \in {"w_run", "add_put"} /\ ~raised
Translated(evs) == [k \in DOMAIN evs |-> EventType(evs[k])]

\* C33: while a run consumes its workflow's events, the events it has
\* published, in the order of their broker sequences, followed by the
\* translations of the events not yet handled, are the translations of the
\* events the workflow yields, in the order it yields them: every event is
\* published exactly once, none is dropped or merged, and the sequences grow.
C33_PublishedInYieldOrder ==
  InLoop =>
    /\ [k \in DOMAIN RunPublished |-> msgType[RunPublished[k].m]] \o Translated(wfEvents)
         = Translated(Yielded)
    /\ \A j, k \in DOMAIN RunPublished : j < k => RunPublished[j].seq < RunPublished[k].seq

\* a failed run has published all five of its workflow's events
C33_Witness ==
  /\ InLoop /\ wfState = "failed" /\ wfEvents = <<>>
  /\ Len(RunPublished) = Len(FailedStream)
  /\ turnLog[LastUserTurn].published > 0

(* ================= the per-analysis EventQueue (C34) =================== *)
MaxQueuedEvents == 2
MaxSince == 1

\* everything but the EventQueue
notEventQueue ==
  <<made, max_events, queue, sequence_number, listeners, lock, chanVars, msgVars,
    sessions, taskVars, histVars, discAt, wfVars>>

\* add_event_message(analysis_id, event_type, data = d), no listener registered
AddEventMessage(a, d) ==
  /\ Len(eventQueue.queues["a1"]) + Len(eventQueue.queues["a2"]) < MaxQueuedEvents
  /\ LET seq == eventQueue.sequence_numbers[a]
         event_msg == [sequence |-> seq, data |-> d]
     IN eventQueue' =
          [eventQueue EXCEPT
             !.queues[a] = DequeAppend(@, event_msg, DefaultMaxEvents),
             !.sequence_numbers[a] = seq + 1]
  /\ UNCHANGED notEventQueue

\* e.data.get('sequence', 0): AttributeError unless the data is a dict
HasGet(d) == d.kind = "dict"
DataGetSequence(d) == IF d.sequence = NoSeq THEN 0 ELSE d.sequence

\* get_events(analysis_id, since_sequence), with the buffer it was called on
GetEvents(a, s) ==
  /\ LET events == eventQueue.queues[a]
         raises == s # None /\ \E k \in DOMAIN events : ~HasGet(events[k].data)
     IN eventQueue' =
          [eventQueue EXCEPT !.got =
             [called |-> TRUE, analysis_id |-> a, since_sequence |-> s,
              buffer |-> events, raised |-> raises,
              events |-> IF s = None THEN events
                         ELSE IF raises THEN <<>>
                         ELSE SelectSeq(events,
                                LAMBDA e : DataGetSequence(e.data) > s[1])]]
  /\ UNCHANGED notEventQueue

\* clear_events(analysis_id)
ClearEvents(a) ==
  /\ eventQueue.queues[a] # <<>>
  /\ eventQueue' = [eventQueue EXCEPT !.queues[a] = <<>>, !.sequence_numbers[a] = 0]
  /\ UNCHANGED notEventQueue

InitEventQueue ==
  /\ InitCommon
  /\ made = 0
  /\ max_events = [b \in Brokers |-> DefaultMaxEvents]
  /\ pc = [t \in AllTasks |-> IF t \in Tasks THEN "idle" ELSE "off"]

NextEventQueue ==
  \/ \E a \in AnalysisIds, d \in Payloads : AddEventMessage(a, d)
  \/ \E a \in AnalysisIds, s \in {None} \cup {<<k>> : k \in -1..MaxSince} : GetEvents(a, s)
  \/ \E a \in AnalysisIds : ClearEvents(a)

SpecEventQueue == InitEventQueue /\ [][NextEventQueue]_vars

\* C34: a get_events(analysis_id, since_sequence = s) call raises nothing and
\* returns exactly the buffered events of that analysis whose assigned
\* sequence is greater than s, in ascending order, whatever their data
\* payloads are; and the buffered events of every analysis carry the
\* consecutive sequences up to that analysis's own counter.
C34_ReplayContract ==
  /\ LET got == eventQueue.got IN
       (got.called /\ got.since_sequence # None) =>
         /\ ~got.raised
         /\ got.events = SelectSeq(got.buffer,
                                   LAMBDA e : e.sequence > got.since_sequence[1])
  /\ \A a \in AnalysisIds :
       LET q == eventQueue.queues[a] IN
         \A k \in DOMAIN q :
           q[k].sequence = eventQueue.sequence_numbers[a] - Len(q) + k - 1

(* ------------------- the buffer and the counter (C35) ------------------ *)
Min(a, b) == IF a <= b THEN a ELSE b
\* the sequences the buffer entries of broker b read, oldest first
BufferSequences(b) == [k \in DOMAIN queue[b] |-> msgSeq[queue[b][k]]]

\* C35: in every reachable state of a broker with capacity N >= 1 the buffer
\* holds exactly the events with the sequences counter - min(counter, N) ..
\* counter - 1, in ascending order: it is never longer than N, has no gaps,
\* and is empty if and only if the counter is 0.
C35_BufferWindow ==
  \A b \in 1..made :
    max_events[b] >= 1 =>
      LET n == Min(sequence_number[b], max_events[b]) IN
        /\ BufferSequences(b) = [k \in 1..n |-> sequence_number[b] - n + k - 1]
        /\ Len(queue[b]) <= max_events[b]
        /\ (queue[b] = <<>>) <=> (sequence_number[b] = 0)

\* a broker of capacity 1 that was cleared and has since published twice
C35_Witness ==
  /\ max_events[1] = 1 /\ lastReset[1] > 0
  /\ sequence_number[1] = 2 /\ Len(queue[1]) = 1

(* ===================== a rejected publish (C36) ======================== *)
\* a value that is not a StreamEventMessage
NotAMessage == 0

\* add_event(value) with a value that is not a StreamEventMessage: the lock
\* is taken and the isinstance check raises ValueError
AddEventInvalidCounted(t, b) ==
  /\ lock[b] = NoTask
  /\ lock' = [lock EXCEPT ![b] = t]
  /\ sequence_number' = [sequence_number EXCEPT ![b] = NextSequence(@)]
  /\ pc' = [pc EXCEPT ![t] = "add_raise"]
  /\ tb' = [tb EXCEPT ![t] = b]
  /\ arg' = [arg EXCEPT ![t] = NotAMessage]
  /\ UNCHANGED <<made, max_events, eventQueue, queue, listeners, chanVars,
                 msgVars, sessions, idx, res, handle, since, histVars, discAt, wfVars>>
AddEventInvalid(t, b) ==
  /\ lock[b] = NoTask
  /\ lock' = [lock EXCEPT ![b] = t]
  /\ pc' = [pc EXCEPT ![t] = "add_raise"]
  /\ tb' = [tb EXCEPT ![t] = b]
  /\ arg' = [arg EXCEPT ![t] = NotAMessage]
  /\ UNCHANGED <<made, max_events, eventQueue, queue, sequence_number, listeners,
                 chanVars, msgVars, sessions, idx, res, handle, since, histVars,
                 discAt, wfVars>>

ApiAddInvalid(t) ==
  /\ pc[t] = "idle"
  /\ \E b \in 1..made : AddEventInvalid(t, b)

\* the ValueError leaves the async with block: the lock is released and the
\* exception reaches the caller
AddEventRaise(t) ==
  /\ pc[t] = "add_raise"
  /\ Release(t, "add")
  /\ UNCHANGED <<tb, res>>

NextReject ==
  \/ \E t \in Tasks : ApiAddEvent(t)
  \/ \E t \in Tasks : ApiAddInvalid(t)
  \/ \E t \in Tasks : AddEventRaise(t)
  \/ \E t \in Tasks : AddEventPut(t)
  \/ \E t \in Tasks : AddEventExit(t)
  \/ \E t \in Tasks : ApiGetEvents(t)
  \/ \E t \in Tasks : GetEventsExit(t)
  \/ \E t \in Tasks : ApiRegister(t)
  \/ \E t \in Tasks : RegisterExit(t)

SpecReject == Init /\ [][NextReject]_vars

\* task t is in, enters or leaves a rejected add_event
Rejecting(t) == pc[t] = "add_raise" \/ pc'[t] = "add_raise"

\* C36, the steps: a rejected add_event changes neither the buffer, nor the
\* counter, nor the listeners and their channels, and returns with the lock
\* released
C36_RejectStep ==
  [][\A t \in Tasks :
       Rejecting(t) =>
         /\ UNCHANGED <<queue, sequence_number, listeners, chan, msgSeq, pubLog>>
         /\ (pc[t] = "add_raise" /\ pc'[t] = "idle") => lock'[tb[t]] = NoTask]_vars

\* C36, the next publish: the k-th accepted add_event of a broker gets the
\* sequence k-1, however many rejected calls were made before it
C36_NextSequence ==
  \A b \in 1..made : \A k \in DOMAIN pubLog[b] : pubLog[b][k].seq = k - 1

\* C36: add_event with a value that is not a StreamEventMessage raises
\* ValueError, releases the lock and leaves the buffer, the sequence counter
\* and every listener channel unchanged, so the next valid publish gets the
\* sequence it would have received otherwise.
C36_RejectedPublish == C36_RejectStep /\ []C36_NextSequence

\* a call is being rejected on a broker that has published an event and has
\* a listener holding it
C36_Witness ==
  \E t \in Tasks :
    /\ pc[t] = "add_raise" /\ lock[tb[t]] = t
    /\ sequence_number[tb[t]] = 1
    /\ listeners[tb[t]] # <<>>
    /\ chan[listeners[tb[t]][1]] # <<>>

(* ================= concurrent persistence (C37) ======================== *)
MaxPersistCalls == 3

\* the WhatIfMessage of the n-th call: the callers' turns are numbered above
\* the turns stored at the start
Item(n) == [role |-> "assistant", sequence_number |-> MaxTurns + n]

\* add_message_to_conversation(conversation_id, analysis_id, item) is called
AddMessageCall(t) ==
  /\ pc[t] = "idle"
  /\ next_seq_num < MaxPersistCalls
  /\ next_seq_num' = next_seq_num + 1
  /\ arg' = [arg EXCEPT ![t] = next_seq_num + 1]
  /\ pc' = [pc EXCEPT ![t] = "amc_get"]
  /\ UNCHANGED <<brokerFrame, tb, idx, res, handle, since, msgType, wfEvents,
                 conv, toPersist, turnLog, runVars>>

\* await self.get_conversation_by_id(...): ValueError when there is none;
\* otherwise conversation.messages.append(item) on the copy that was read
AddMessageGet(t) ==
  /\ pc[t] = "amc_get"
  /\ IF conv.exists
       THEN /\ res' = [res EXCEPT ![t] = Append(conv.messages, Item(arg[t]))]
            /\ pc' = [pc EXCEPT ![t] = "amc_update"]
            /\ arg' = arg
       ELSE /\ pc' = [pc EXCEPT ![t] = "idle"]
            /\ arg' = [arg EXCEPT ![t] = 0]
            /\ res' = res
  /\ UNCHANGED <<brokerFrame, tb, idx, handle, since, msgType, wfEvents, convVars,
                 runVars>>

\* await self.update(conversation_id, conversation.model_dump(...)): the
\* stored document is replaced by the caller's copy, and the call returns
AddMessageUpdate(t) ==
  /\ pc[t] = "amc_update"
  /\ conv' = [exists |-> TRUE, messages |-> res[t]]
  /\ turnLog' = Append(turnLog, [role |-> Item(arg[t]).role,
                                 sequence_number |-> Item(arg[t]).sequence_number,
                                 stored |-> TRUE, published |-> 0])
  /\ pc' = [pc EXCEPT ![t] = "idle"]
  /\ arg' = [arg EXCEPT ![t] = 0]
  /\ res' = [res EXCEPT ![t] = <<>>]
  /\ UNCHANGED <<brokerFrame, tb, idx, handle, since, msgType, wfEvents,
                 next_seq_num, toPersist, runVars>>

InitPersist ==
  /\ InitBase
  /\ InitRun
  /\ conv \in {NoConversation} \cup {Stored(k) : k \in 0..MaxTurns}
  /\ made = 0
  /\ max_events = [b \in Brokers |-> DefaultMaxEvents]
  /\ pc = [t \in AllTasks |-> IF t \in Tasks THEN "idle" ELSE "off"]

NextPersist ==
  \/ \E t \in Tasks : AddMessageCall(t)
  \/ \E t \in Tasks : AddMessageGet(t)
  \/ \E t \in Tasks : AddMessageUpdate(t)

SpecPersist == InitPersist /\ [][NextPersist]_vars

\* C37: the stored conversation contains the turn of every
\* add_message_to_conversation call that has returned successfully, also
\* when the calls interleave.
C37_NoTurnLost ==
  \A k \in DOMAIN turnLog :
    \E j \in DOMAIN conv.messages :
      conv.messages[j] = [role |-> turnLog[k].role,
                          sequence_number |-> turnLog[k].sequence_number]

(* ------------------ the user's turn comes first (C38) ------------------ *)
\* the run in progress has handed the user's turn to the store
UserTurnHanded == next_seq_num > 0
\* the turns the run in progress has handed to the store after the user's
AssistantTurns == {k \in DOMAIN turnLog : k > LastUserTurn}

\* C38 as stated: in every run of execute_workflow the persist attempt for
\* the user's turn precedes the first event the run publishes to the broker.
C38_UserTurnFirst ==
  [][Len(pubLog'[1]) > Len(pubLog[1]) => UserTurnHanded]_vars

\* C38, amended: a run that gets as far as the workflow call has handed the
\* user's turn to the store and has published nothing yet; every assistant
\* turn of the run is handed over later, after an event the run published,
\* and with a larger sequence_number than the user's turn.
C38_UserTurnBeforeWorkflow ==
  /\ pc["w1"] = "wf_call" =>
       /\ turnLog # <<>>
       /\ turnLog[Len(turnLog)].role = "user"
       /\ turnLog[Len(turnLog)].sequence_number = next_seq_num
       /\ turnLog[Len(turnLog)].published = Len(pubLog[1])
  /\ pc["w1"] \in {"w_run", "add_put", "wf_except", "wf_end"} /\ UserTurnHanded =>
       /\ \E k \in DOMAIN turnLog : turnLog[k].role = "user"
       /\ turnLog[LastUserTurn].published <= Len(pubLog[1])
       /\ \A k \in AssistantTurns :
            /\ turnLog[k].role = "assistant"
            /\ turnLog[k].sequence_number > turnLog[LastUserTurn].sequence_number
            /\ turnLog[k].published > turnLog[LastUserTurn].published

\* a second run on the conversation has handed over its user's turn and two
\* assistant turns
C38_Witness ==
  /\ pc["w1"] = "w_run" /\ UserTurnHanded
  /\ LastUserTurn > 1
  /\ Cardinality(AssistantTurns) = 2

====
